---- MODULE Spec2Model ----
(***************************************************************************)
(* A model of agent-crawl's crawl orchestration: AgentCrawl.crawl (the BFS *)
(* loop, its frontier, visited and queued sets, persisted crawl state),    *)
(* HostScheduler (per-host admission) and Robots (path rules).             *)
(*                                                                         *)
(* URLs are texts: sequences of one-character strings.  The text           *)
(* <<"h","a","/","p">> stands for https://a/p: "h" is the scheme, the      *)
(* characters before the first "/" are the origin, the rest is the path.   *)
(***************************************************************************)
EXTENDS Integers, Sequences, FiniteSets, TLC

VARIABLES
    cfg,              \* the CrawlConfig of the running crawl() invocation
    site,             \* the environment: what scrape, robots.txt and sitemap.xml answer
    pc,               \* position of crawl(): "start", "loop", "drain", "process", "done"
                      \* ("sched" in the HostScheduler harness)
    run,              \* number of the crawl() invocation (1 = first)
    robots,           \* RobotsTxt | null
    visited,          \* Set<string>
    queued,           \* Set<string>
    queue,            \* Array<{url, depth}>
    pages,            \* ScrapedPage[] (url = final url; depth kept for the depth claims)
    errors,           \* Array<{url, error}>, the url only
    maxDepthReached,
    batches,
    batch,            \* the batch in flight: items {url, depth, st, local, ord}
                      \* (ord: the item settled as the ord-th of its batch, 0 = not yet)
    idx,              \* index of the result loop over the settled batch
    inflightByHost,   \* the shared HostScheduler's inflightByHost
    sinceStart,       \* per host: time since the shared scheduler's lastStartByHost, capped
    file,             \* the persisted crawl state file: a snapshot | Null
    result,           \* the CrawlResult returned | Null
    seen,             \* log: the urls scrape was called with in this invocation
    enqLog,           \* log: the urls pushed on the queue by this invocation
    hydrated,         \* the visited set loaded from the state file by this invocation
    sinceHost,        \* per host: time since the last scrape start of this crawl, capped
    minGap,           \* smallest time between two scrape starts on one host (-1: none yet)
    freshCount,       \* number of never-seen urls the site has handed out
    preRun,           \* what the previous invocation returned: {maxPages, totalPages} | Null
    tmp,              \* the file at `${statePath}.tmp`: a snapshot, whole or cut short | Null
    cache,            \* CacheManager's Map, in iteration order: entries {key, data, timestamp}
    now,              \* Date.now(), counted in operations
    diskKv,           \* the DiskKv of the scrape cache: the set of entries {key, value}
    call,             \* log: the last scrape() call, what it invoked and returned | Null
    fetchCall,        \* log: the last SmartFetcher.fetch call, its attempts and result | Null
    bm                \* the BrowserManager: its fields, the browsers alive, the calls under way

\* The variables of scrape(), its caches and its fetcher.
scrapeVars == <<cache, now, diskKv, call, fetchCall, bm>>

vars == <<cfg, site, pc, run, robots, visited, queued, queue, pages, errors,
          maxDepthReached, batches, batch, idx, inflightByHost, sinceStart, file,
          result, seen, enqLog, hydrated, sinceHost, minGap, freshCount, preRun,
          tmp, scrapeVars>>

\* An absent value (null, undefined, no file) is <<>>; a present one is <<x>>.
Null == <<>>
Some(x) == <<x>>
The(o) == o[1]

\* The one element of a singleton set.  {e(x) : x \in {v}} computes v once
\* and hands its value to e.
Only(S) == CHOOSE x \in S : TRUE

(***************************************************************************)
(* Bounds of the model.                                                    *)
(***************************************************************************)
MaxDepthBound == 2      \* maxDepth ranges over 0..MaxDepthBound
MaxPagesBound == 3      \* maxPages ranges over 1..MaxPagesBound
MaxConcurrency == 2     \* concurrency and perHostConcurrency range over 1..MaxConcurrency
MaxLinks == 2           \* links of a page, entries of a sitemap
MaxDelay == 2           \* minDelayMs and Crawl-delay range over 0..MaxDelay (time units)
MaxRuns == 2            \* crawl() invocations sharing one state file
MaxCallers == 3         \* run() calls in the HostScheduler harness
MaxCacheSize == 3       \* CacheManager's maxSize ranges over 1..MaxCacheSize
MaxOps == 5             \* cache operations in one behaviour
MaxRetries == 2         \* FetchOptions.retries ranges over 0..MaxRetries
MaxScrapes == 2         \* calls of scrape in one behaviour
MaxRules == 2           \* Allow lines, and Disallow lines, of a robots section
MaxLines == 5           \* lines of a robots.txt
MaxGetters == 2         \* calls of BrowserManager.getPage in one behaviour
MaxLaunches == 2        \* calls of chromium.launch in one behaviour
MaxCloses == 1          \* calls of BrowserManager.close from outside in one behaviour
MaxApplications == 2    \* successive applications of normalizeUrl to one text

Min(a, b) == IF a < b THEN a ELSE b
Max(a, b) == IF a > b THEN a ELSE b

(***************************************************************************)
(* URL texts.                                                              *)
(***************************************************************************)
BaseOrigin == <<"h", "a">>
OtherOrigin == <<"h", "b">>
UrlRoot == BaseOrigin \o <<"/">>
UrlA == BaseOrigin \o <<"/", "a">>
UrlASlash == BaseOrigin \o <<"/", "a", "/">>
UrlP == BaseOrigin \o <<"/", "p">>
UrlPX == BaseOrigin \o <<"/", "p", "x">>
UrlOther == OtherOrigin \o <<"/">>
\* An origin whose text begins with the base origin's text (https://a.com and
\* https://a.com.evil.org, or https://a.com:8443).
EvilOrigin == BaseOrigin \o <<"e">>
UrlEvil == EvilOrigin \o <<"/">>
\* A text that is no absolute url: it has no scheme.
UrlBad == <<"x">>

\* The n-th never-seen url of an endless site: /n, /nn, /nnn, ...
FreshUrl(n) == BaseOrigin \o <<"/">> \o [i \in 1..(n + 1) |-> "n"]

StartsWith(s, p) == Len(p) <= Len(s) /\ SubSeq(s, 1, Len(p)) = p

\* Index of the first c in s, or Len(s) + 1.
RECURSIVE IndexFrom(_, _, _)
IndexFrom(s, c, i) ==
    IF i > Len(s) THEN i
    ELSE IF s[i] = c THEN i ELSE IndexFrom(s, c, i + 1)
IndexOf(s, c) == IndexFrom(s, c, 1)

\* new URL(u).origin, .host and .pathname of a url text.
OriginOf(u) == SubSeq(u, 1, IndexOf(u, "/") - 1)
HostOf(u) == OriginOf(u)
PathOf(u) ==
    LET noHash == SubSeq(u, 1, IndexOf(u, "#") - 1)
        noQuery == SubSeq(noHash, 1, IndexOf(noHash, "?") - 1)
    IN  SubSeq(noQuery, IndexOf(noQuery, "/"), Len(noQuery))

\* The parts of a url text beyond origin and path: a host character may be
\* upper case ("A"), the origin may end in a port (":" and "d" for the
\* scheme's default port, "o" for another), "?" starts the query, whose
\* parameters are one character each ("t": a tracking key such as
\* utm_source; "j", "k": other keys), and "#" starts the fragment.
ParamKeys == <<"j", "k", "t">>
KeyRank(c) == CHOOSE i \in 1..Len(ParamKeys) : ParamKeys[i] = c
TRACKING_PARAMS == {"t"}

\* u.hostname.toLowerCase()
LowerCase(s) == [i \in 1..Len(s) |-> IF s[i] = "A" THEN "a" ELSE s[i]]

\* Drop default ports.
DropDefaultPort(o) ==
    IF Len(o) >= 2 /\ o[Len(o) - 1] = ":" /\ o[Len(o)] = "d"
    THEN SubSeq(o, 1, Len(o) - 2) ELSE o

\* searchParams.delete(key) for every tracking key.
RECURSIVE StripTracking(_)
StripTracking(ps) ==
    IF ps = <<>> THEN <<>>
    ELSE IF Head(ps) \in TRACKING_PARAMS THEN StripTracking(Tail(ps))
    ELSE <<Head(ps)>> \o StripTracking(Tail(ps))

\* searchParams.sort(): a stable sort by key.
RECURSIVE InsertParam(_, _)
InsertParam(sorted, c) ==
    IF sorted = <<>> THEN <<c>>
    ELSE IF KeyRank(c) < KeyRank(Head(sorted)) THEN <<c>> \o sorted
    ELSE <<Head(sorted)>> \o InsertParam(Tail(sorted), c)
RECURSIVE SortParams(_)
SortParams(ps) ==
    IF ps = <<>> THEN <<>>
    ELSE InsertParam(SortParams(SubSeq(ps, 1, Len(ps) - 1)), ps[Len(ps)])

\* The trailing-slash rule: one slash off a pathname longer than "/".
StripSlash(path) ==
    IF Len(path) > 1 /\ path[Len(path)] = "/" THEN SubSeq(path, 1, Len(path) - 1) ELSE path

\* u.href: the url text of origin, pathname and query parameters.
Href(origin, path, params) ==
    origin \o path \o (IF params = <<>> THEN <<>> ELSE <<"?">> \o params)

\* normalizeUrl on a text without fragment: the hostname, the port, the
\* query parameters and the pathname are rewritten one by one.
NormalizeParts(noHash, noQuery) ==
    Only({Href(Only({DropDefaultPort(lower) : lower \in {LowerCase(rawOrigin)}}),
               StripSlash(IF rawPath = <<>> THEN <<"/">> ELSE rawPath),
               SortParams(kept)) :
            rawOrigin \in {SubSeq(noQuery, 1, IndexOf(noQuery, "/") - 1)},
            rawPath \in {SubSeq(noQuery, IndexOf(noQuery, "/"), Len(noQuery))},
            kept \in {StripTracking(SubSeq(noHash, IndexOf(noHash, "?") + 1, Len(noHash)))}})

\* UrlUtils.normalizeUrl on these texts: lower-case the hostname, drop the
\* fragment and a default port, delete the tracking parameters and sort the
\* others, strip one trailing slash of the pathname, and serialize (href).
normalizeUrl(u) ==
    Only({Only({NormalizeParts(noHash, noQuery) :
                  noQuery \in {SubSeq(noHash, 1, IndexOf(noHash, "?") - 1)}}) :
            noHash \in {SubSeq(u, 1, IndexOf(u, "#") - 1)}})

\* new URL(u) accepts anything, even a text without a scheme.
ParsesAnything(u) == TRUE

\* new URL(u) does not throw: the text starts with a scheme.
Parses(u) == Len(u) > 0 /\ u[1] = "h"

\* Every url the crawl normalizes parses, so the fallback branch is never taken.
normalizeUrlForDedupe(u) == normalizeUrl(u)

\* safeHttpUrl(u) /= null: the scheme is http(s).
safeHttpUrl(u) == Len(u) > 0 /\ u[1] = "h"

(***************************************************************************)
(* Robots.                                                                 *)
(***************************************************************************)
\* Length of the longest non-empty rule of rs that is a prefix of path, or -1.
RECURSIVE BestLen(_, _, _)
BestLen(path, rs, best) ==
    IF rs = <<>> THEN best
    ELSE LET r == Head(rs)
         IN  IF r /= <<>> /\ StartsWith(path, r) /\ Len(r) > best
             THEN BestLen(path, Tail(rs), Len(r))
             ELSE BestLen(path, Tail(rs), best)

\* A matching of the rules in which a disallow rule wins a tie.
pathAllowedTieDisallows(path, rules) ==
    LET bestDisallow == BestLen(path, rules.disallow, -1)
        bestAny == BestLen(path, rules.allow, bestDisallow)
    IN  bestDisallow = -1 \/ bestAny > bestDisallow

\* A disallow rule wins only when strictly longer than every matching allow rule.
pathAllowed(path, rules) ==
    LET bestAllow == BestLen(path, rules.allow, -1)
        bestAny == BestLen(path, rules.disallow, bestAllow)
    IN  ~(bestAny > bestAllow)

isAllowedByRobots(u, rb) ==
    /\ safeHttpUrl(u)
    /\ OriginOf(u) = rb.origin
    /\ pathAllowed(PathOf(u), rb.rules)

\* The parsed robots.txt files a site may serve (rules of the selected section).
RulesDisallowP(delay) == [disallow |-> <<<<"/", "p">>>>, allow |-> <<>>, crawlDelayMs |-> delay]
RulesAllowPX(delay) ==
    [disallow |-> <<<<"/", "p">>>>, allow |-> <<<<"/", "p", "x">>>>, crawlDelayMs |-> delay]
RulesOpen(delay) == [disallow |-> <<>>, allow |-> <<>>, crawlDelayMs |-> delay]

(***************************************************************************)
(* Configurations and environments.                                        *)
(***************************************************************************)
\* crawl()'s defaults, but for the bounds of the model.
BaseCfg ==
    [startUrl |-> UrlRoot, maxDepth |-> MaxDepthBound, maxPages |-> MaxPagesBound,
     concurrency |-> MaxConcurrency, perHostConcurrency |-> MaxConcurrency,
     minDelayMs |-> 0,
     robotsEnabled |-> FALSE, respectCrawlDelay |-> TRUE,
     sitemapEnabled |-> FALSE, sitemapMaxUrls |-> MaxLinks,
     stateEnabled |-> FALSE, resume |-> TRUE, flushEvery |-> 1, persistPages |-> TRUE,
     includePatterns |-> {}, excludePatterns |-> {}]

\* A site answering anything: every scrape may fail, redirect to one of
\* finals, and list any links over raw.
AnySite(raw, finals, robotsTxts) ==
    [mode |-> "any", raw |-> raw, finals |-> finals, robots |-> robotsTxts]

\* An endless site: every page links to a url never seen before.
FreshSite == [mode |-> "fresh", raw |-> {}, finals |-> {}, robots |-> {Null}]

Page(u, links) == [kind |-> "ok", url |-> u, links |-> links]
ErrPage(u) == [kind |-> "err", url |-> u, links |-> <<>>]

\* Fixed sites: one answer per url.
\* The site of the resume test: / links to /a and /p.
SitePlain ==
    [mode |-> "fixed", raw |-> {}, finals |-> {}, robots |-> {Null},
     map |-> [u \in {UrlRoot, UrlA, UrlP, UrlPX} |->
                 IF u = UrlRoot THEN Page(u, <<UrlA, UrlP>>) ELSE Page(u, <<>>)]]
\* The same site, where /a redirects to /p.
SiteRedirect ==
    [mode |-> "fixed", raw |-> {}, finals |-> {}, robots |-> {Null},
     map |-> [u \in {UrlRoot, UrlA, UrlP, UrlPX} |->
                 IF u = UrlRoot THEN Page(u, <<UrlA, UrlP>>)
                 ELSE IF u = UrlA THEN Page(UrlP, <<>>) ELSE Page(u, <<>>)]]

\* The site of the dedup test: / lists /a and /p twice, /a links to /p.
SiteDedup ==
    [mode |-> "fixed", raw |-> {}, finals |-> {}, robots |-> {Null},
     map |-> [u \in {UrlRoot, UrlA, UrlP, UrlPX} |->
                 IF u = UrlRoot THEN Page(u, <<UrlA, UrlA, UrlP, UrlP>>)
                 ELSE IF u = UrlA THEN Page(u, <<UrlP>>) ELSE Page(u, <<>>)]]
\* A chain: / -> /a -> /p -> /px.
SiteChain ==
    [mode |-> "fixed", raw |-> {}, finals |-> {}, robots |-> {Null},
     map |-> [u \in {UrlRoot, UrlA, UrlP, UrlPX} |->
                 IF u = UrlRoot THEN Page(u, <<UrlA>>)
                 ELSE IF u = UrlA THEN Page(u, <<UrlP>>)
                 ELSE IF u = UrlP THEN Page(u, <<UrlPX>>) ELSE Page(u, <<>>)]]

\* A site with failures: / links to /a, /p and /px; /a rejects, /p answers
\* with an error page, /px links back to /a.
SiteFailing ==
    [mode |-> "fixed", raw |-> {}, finals |-> {}, robots |-> {Null},
     map |-> [u \in {UrlRoot, UrlA, UrlP, UrlPX} |->
                 IF u = UrlRoot THEN Page(u, <<UrlA, UrlP, UrlPX>>)
                 ELSE IF u = UrlA THEN [kind |-> "rej", url |-> u, links |-> <<>>]
                 ELSE IF u = UrlP THEN ErrPage(u) ELSE Page(u, <<UrlA>>)]]

Hosts == {BaseOrigin, OtherOrigin, EvilOrigin}

\* Sequences over S of length at most n.
SeqsUpTo(S, n) == UNION {[1..k -> S] : k \in 0..n}

(***************************************************************************)
(* HostScheduler.                                                          *)
(***************************************************************************)
\* acquire's admission test without the delay conjunct.
acquireOkNoDelay(inflight, since, k, d) == inflight < k

\* acquire's admission test: inflight < perHostConcurrency && waitForDelay === 0,
\* where since = now - lastStart.
acquireOk(inflight, since, k, d) == inflight < k /\ Max(0, d - since) = 0

\* release: the counter after one operation completes (0 = entry deleted).
release(inflight) == IF inflight <= 1 THEN 0 ELSE inflight - 1

\* run's try/finally: the counter after fn settled with outcome o.
SlotAfterNoFinally(o, inflight) == IF o = "rej" THEN inflight ELSE release(inflight)

SlotAfter(o, inflight) == release(inflight)

(***************************************************************************)
(* crawl(): the pure parts.                                                *)
(***************************************************************************)
Includes(u, p) == \E i \in 0..(Len(u) - Len(p)) : SubSeq(u, i + 1, i + Len(p)) = p

\* A filter that forgets the exclude list.
matchesPatternsIncludeOnly(u) ==
    cfg.includePatterns = {} \/ \E p \in cfg.includePatterns : Includes(u, p)

matchesPatterns(u) ==
    /\ (cfg.includePatterns = {} \/ \E p \in cfg.includePatterns : Includes(u, p))
    /\ ~(\E p \in cfg.excludePatterns : Includes(u, p))

\* new URL(startUrl).origin
baseOrigin == OriginOf(cfg.startUrl)

shouldQueueWith(u, rb) ==
    /\ StartsWith(u, baseOrigin)
    /\ safeHttpUrl(u)
    /\ matchesPatterns(u)
    /\ ~(cfg.robotsEnabled /\ rb /= Null /\ ~isAllowedByRobots(u, The(rb)))

shouldQueue(u) == shouldQueueWith(u, robots)

\* The outer loop's condition.
LoopCondNoBudget(queueLen, nPages, maxPages) == queueLen > 0

LoopCond(queueLen, nPages, maxPages) == queueLen > 0 /\ nPages < maxPages

\* The inner loop's budget test.
BudgetLeftIgnoringBatch(nPages, batchLen, maxPages) == nPages < maxPages

BudgetLeft(nPages, batchLen, maxPages) == nPages + batchLen < maxPages

\* The dequeue test: skip if already visited or too deep.
SkipItem(item, vis, maxDepth) == item.url \in vis \/ item.depth > maxDepth

\* The inner loop: take a batch off the queue.
RECURSIVE TakeBatch(_, _, _, _, _)
TakeBatch(q, vis, qd, b, nPages) ==
    IF Len(b) < cfg.concurrency /\ Len(q) > 0 /\ BudgetLeft(nPages, Len(b), cfg.maxPages)
    THEN Only({IF SkipItem(item, vis, cfg.maxDepth)
               THEN TakeBatch(rest, vis, qd1, b, nPages)
               ELSE Only({TakeBatch(rest, vis1, qd1, b1, nPages) :
                            vis1 \in {vis \cup {item.url}}, b1 \in {Append(b, item)}}) :
                 item \in {Head(q)}, rest \in {Tail(q)}, qd1 \in {qd \ {Head(q).url}}})
    ELSE [queue |-> q, visited |-> vis, queued |-> qd, batch |-> b]

\* The link test of the result loop.
LinkWantedNoQueued(n, vis, qd) == shouldQueue(n) /\ n \notin vis

LinkWanted(n, vis, qd) == shouldQueue(n) /\ n \notin vis /\ n \notin qd

\* The link loop: enqueue the links of a page accepted at depth.
RECURSIVE EnqueueLinks(_, _, _, _, _)
EnqueueLinks(links, q, qd, vis, depth) ==
    IF links = <<>> THEN [queue |-> q, queued |-> qd]
    ELSE Only({IF LinkWanted(n, vis, qd)
               THEN Only({EnqueueLinks(rest, q1, qd1, vis, depth) :
                            rest \in {Tail(links)},
                            q1 \in {Append(q, [url |-> n, depth |-> depth + 1])},
                            qd1 \in {qd \cup {n}}})
               ELSE Only({EnqueueLinks(rest, q, qd, vis, depth) : rest \in {Tail(links)}}) :
                 n \in {normalizeUrlForDedupe(Head(links))}})

\* Links are harvested only below maxDepth.
HarvestAtOrBelow(depth, maxDepth) == depth <= maxDepth

HarvestAt(depth, maxDepth) == depth < maxDepth

\* A result loop that records no error for a page carrying metadata.error.
ProcessFulfilledForgetsErrors(st, item, page) ==
    LET vis == st.visited \cup {normalizeUrlForDedupe(page.url)}
    IN  IF page.kind = "ok"
        THEN LET q == IF HarvestAt(item.depth, cfg.maxDepth)
                      THEN EnqueueLinks(page.links, st.queue, st.queued, vis, item.depth)
                      ELSE [queue |-> st.queue, queued |-> st.queued]
             IN  [st EXCEPT !.visited = vis,
                            !.pages = Append(@, [url |-> page.url, depth |-> item.depth]),
                            !.maxDepthReached = Max(@, item.depth),
                            !.queue = q.queue, !.queued = q.queued]
        ELSE [st EXCEPT !.visited = vis]

\* A result loop that leaves the final url out of visited.
ProcessFulfilledNoCanonical(st, item, page) ==
    IF page.kind = "ok"
    THEN LET q == IF HarvestAt(item.depth, cfg.maxDepth)
                  THEN EnqueueLinks(page.links, st.queue, st.queued, st.visited, item.depth)
                  ELSE [queue |-> st.queue, queued |-> st.queued]
         IN  [st EXCEPT !.pages = Append(@, [url |-> page.url, depth |-> item.depth]),
                        !.maxDepthReached = Max(@, item.depth),
                        !.queue = q.queue, !.queued = q.queued]
    ELSE [st EXCEPT !.errors = Append(@, item.url)]

\* One round of the result loop on the crawl's mutable state st, for a
\* fulfilled scrape of item that returned page.
ProcessFulfilled(st, item, page) ==
    LET vis == st.visited \cup {normalizeUrlForDedupe(page.url)}
    IN  IF page.kind = "ok"
        THEN LET q == IF HarvestAt(item.depth, cfg.maxDepth)
                      THEN EnqueueLinks(page.links, st.queue, st.queued, vis, item.depth)
                      ELSE [queue |-> st.queue, queued |-> st.queued]
             IN  [st EXCEPT !.visited = vis,
                            !.pages = Append(@, [url |-> page.url, depth |-> item.depth]),
                            !.maxDepthReached = Max(@, item.depth),
                            !.queue = q.queue, !.queued = q.queued]
        ELSE [st EXCEPT !.visited = vis, !.errors = Append(@, item.url)]

\* A rejected scrape that leaves no trace.
ProcessRejectedSilently(st, item) == st

\* The same for a rejected scrape.
ProcessRejected(st, item) == [st EXCEPT !.errors = Append(@, item.url)]

\* The crawl's mutable state as one record, and the snapshot persistState writes.
CrawlState ==
    [queue |-> queue, visited |-> visited, queued |-> queued, pages |-> pages,
     errors |-> errors, maxDepthReached |-> maxDepthReached]

\* damage tells what reading the file back meets: "none" for the JSON text
\* persistState wrote.
Snapshot(st) ==
    [queue |-> st.queue, visited |-> st.visited, queued |-> st.queued,
     pages |-> IF cfg.persistPages THEN st.pages ELSE <<>>,
     errors |-> st.errors, maxDepthReached |-> st.maxDepthReached, damage |-> "none"]

(***************************************************************************)
(* crawl(): what the environment may answer.                               *)
(***************************************************************************)
\* The pages a fulfilled scrape(u) may return.  An error page keeps the url
\* it was asked for (toErrorPage); a page that was fetched has the final url.
PagesFor(u) ==
    IF site.mode = "fixed" THEN {site.map[u]}
    ELSE IF site.mode = "fresh"
         THEN {ErrPage(u), Page(u, [i \in 1..MaxLinks |-> FreshUrl(freshCount + i - 1)])}
    ELSE {ErrPage(u)}
         \cup {Page(f, l) : f \in {u} \cup site.finals, l \in SeqsUpTo(site.raw, MaxLinks)}

\* Whether scrape(u) may settle with outcome o ("ful": fulfilled, "rej": rejected).
MaySettle(u, o) ==
    IF site.mode = "fixed" THEN (o = "rej") = (site.map[u].kind = "rej") ELSE TRUE

\* What fetching sitemap.xml may give: a 2xx response, a response of another
\* status (either with <loc> entries in its body), or a failed fetch.
SitemapResponsesOver(raw) ==
    {[status |-> s, locs |-> l] : s \in {"ok", "non2xx"}, l \in SeqsUpTo(raw, MaxLinks)}
    \cup {[status |-> "fail", locs |-> <<>>]}

SitemapsOf ==
    IF "sitemaps" \in DOMAIN site THEN site.sitemaps
    ELSE IF site.mode = "any" THEN SitemapResponsesOver(site.raw)
    ELSE {[status |-> "ok", locs |-> <<>>]}

\* The <loc> entries taken from the body of any response.
SitemapLocsAnyStatus(res) == res.locs

\* The <loc> entries the seeding reads: those of a 2xx response.
SitemapLocs(res) == IF res.status = "ok" THEN res.locs ELSE <<>>

(***************************************************************************)
(* crawl(): seeding.                                                       *)
(***************************************************************************)
\* A hydration that takes the persisted queue as it is.
HydrateQueueUnfiltered(items, vis) == items

\* Resume hydration of the queue: persisted items not already visited.
RECURSIVE HydrateQueue(_, _)
HydrateQueue(items, vis) ==
    IF items = <<>> THEN <<>>
    ELSE IF Head(items).url \notin vis
         THEN <<Head(items)>> \o HydrateQueue(Tail(items), vis)
         ELSE HydrateQueue(Tail(items), vis)

\* The crawl's state before anything is loaded or seeded.
Cold ==
    [queue |-> <<>>, visited |-> {}, queued |-> {}, pages |-> <<>>,
     errors |-> <<>>, maxDepthReached |-> 0]

\* The ways a state file can fail to load.  "cut": the text is not JSON (or
\* cannot be read); "missing": queue, visited or queued is absent or falsy;
\* "visited", "queued", "queue": that field is present and truthy but cannot
\* be iterated (a number, an object).
Damages == {"cut", "missing", "visited", "queued", "queue"}

\* The resume block run on the parsed file f: the statements up to the one
\* that throws have taken effect when the catch swallows the exception.
HydrateFrom(f) ==
    LET sets == [Cold EXCEPT !.visited = f.visited]
        body == [sets EXCEPT !.queued = f.queued,
                             !.pages = IF cfg.persistPages THEN f.pages ELSE <<>>,
                             !.errors = f.errors,
                             !.maxDepthReached = f.maxDepthReached]
    IN  CASE f.damage \in {"cut", "missing", "visited"} -> Cold
          [] f.damage = "queued" -> sets
          [] f.damage = "queue" -> body
          [] OTHER -> [body EXCEPT !.queue = HydrateQueue(f.queue, f.visited)]

\* The state after the resume block: the snapshot's, or empty.
Hydrated ==
    IF cfg.stateEnabled /\ cfg.resume /\ file /= Null
    THEN HydrateFrom(The(file))
    ELSE Cold

\* Seeding the start url.
SeedStart(st, rb) ==
    LET s == normalizeUrlForDedupe(normalizeUrl(cfg.startUrl))
        push == shouldQueueWith(s, rb) /\ s \notin st.queued /\ s \notin st.visited
    IN  [st EXCEPT !.queue = IF push THEN Append(@, [url |-> s, depth |-> 0]) ELSE @,
                   !.queued = @ \cup {s}]

\* Seeding from the sitemap's locs.
RECURSIVE SeedSitemap(_, _, _)
SeedSitemap(st, locs, rb) ==
    IF locs = <<>> THEN st
    ELSE LET n == normalizeUrlForDedupe(Head(locs))
         IN  IF shouldQueueWith(n, rb) /\ n \notin st.queued /\ n \notin st.visited
             THEN SeedSitemap([st EXCEPT !.queue = Append(@, [url |-> n, depth |-> 0]),
                                         !.queued = @ \cup {n}], Tail(locs), rb)
             ELSE SeedSitemap(st, Tail(locs), rb)

\* The urls pushed between queue q0 and its extension q1.
Pushed(q0, q1) == [i \in 1..(Len(q1) - Len(q0)) |-> q1[Len(q0) + i].url]

SetState(st) ==
    /\ queue' = st.queue
    /\ visited' = st.visited
    /\ queued' = st.queued
    /\ pages' = st.pages
    /\ errors' = st.errors
    /\ maxDepthReached' = st.maxDepthReached

NoHost == [h \in Hosts |-> 0]

\* crawl() with a start url that does not parse: the early return.
StartInvalid ==
    /\ pc' = "done"
    /\ result' = Some([pages |-> <<>>, totalPages |-> 0, maxDepthReached |-> 0,
                       errors |-> <<cfg.startUrl>>])
    /\ UNCHANGED <<tmp, scrapeVars, cfg, site, run, robots, visited, queued, queue, pages, errors,
                   maxDepthReached, batches, batch, idx, inflightByHost, sinceStart,
                   file, seen, enqLog, hydrated, sinceHost, minGap, freshCount, preRun>>

\* crawl() from its entry to the dispatch loop: robots.txt, resume, seeds.
StartValid ==
    /\ \E rb \in (IF cfg.robotsEnabled THEN site.robots ELSE {Null}),
          res \in (IF cfg.sitemapEnabled THEN SitemapsOf ELSE {[status |-> "ok", locs |-> <<>>]}) :
          LET h == Hydrated
              s1 == SeedStart(h, rb)
              locs == SitemapLocs(res)
              s2 == SeedSitemap(s1, SubSeq(locs, 1, Min(Len(locs), cfg.sitemapMaxUrls)), rb)
          IN  /\ robots' = rb
              /\ SetState(s2)
              /\ enqLog' = Pushed(h.queue, s2.queue)
              /\ hydrated' = h.visited
    /\ pc' = "loop"
    /\ batches' = 0
    /\ batch' = <<>>
    /\ idx' = 0
    /\ inflightByHost' = NoHost
    /\ sinceStart' = [h \in Hosts |-> MaxDelay]
    /\ sinceHost' = [h \in Hosts |-> -1]
    /\ minGap' = -1
    /\ seen' = <<>>
    /\ result' = Null
    /\ UNCHANGED <<tmp, scrapeVars, cfg, site, run, file, freshCount, preRun>>

Start ==
    /\ pc = "start"
    /\ IF Parses(cfg.startUrl) THEN StartValid ELSE StartInvalid

(***************************************************************************)
(* crawl(): the dispatch loop.                                             *)
(***************************************************************************)
\* The delay of one request: the robots Crawl-delay when respected and set.
delayMs ==
    IF cfg.respectCrawlDelay /\ robots /= Null /\ The(robots).rules.crawlDelayMs /= 0
    THEN The(robots).rules.crawlDelayMs ELSE 0

effectiveDelay == Max(cfg.minDelayMs, delayMs)

\* Whether a request goes through the crawl's scheduler (else through a
\* HostScheduler constructed for this one request).
UsesCrawlScheduler(effDelay, minDelay) == effDelay = minDelay

\* The scheduler state a request sees: the crawl's, or a new scheduler's.
InflightSeen(item, infl) == IF item.local THEN 0 ELSE infl[HostOf(item.url)]
SinceSeen(item, since) == IF item.local THEN MaxDelay ELSE since[HostOf(item.url)]
DelayOf(item) == IF item.local THEN effectiveDelay ELSE cfg.minDelayMs

\* The bookkeeping of one admission: s = [batch, infl, since, sinceHost, minGap, seen].
Admitted(s, i) ==
    LET item == s.batch[i]
        h == HostOf(item.url)
    IN  [batch |-> [s.batch EXCEPT ![i].st = "run"],
         infl |-> IF item.local THEN s.infl ELSE [s.infl EXCEPT ![h] = @ + 1],
         since |-> IF item.local THEN s.since ELSE [s.since EXCEPT ![h] = 0],
         sinceHost |-> [s.sinceHost EXCEPT ![h] = 0],
         minGap |-> IF s.sinceHost[h] < 0 THEN s.minGap
                    ELSE IF s.minGap < 0 THEN s.sinceHost[h]
                    ELSE Min(s.minGap, s.sinceHost[h]),
         seen |-> Append(s.seen, item.url)]

\* One pass of acquire's loop for request i: admit it, or leave it polling.
TryAcquire(s, i) ==
    LET item == s.batch[i]
    IN  IF acquireOk(InflightSeen(item, s.infl), SinceSeen(item, s.since),
                     cfg.perHostConcurrency, DelayOf(item))
        THEN Admitted(s, i)
        ELSE s

\* batch.map: every request runs up to its first await, in batch order.
RECURSIVE FirstPasses(_, _)
FirstPasses(s, i) ==
    IF i > Len(s.batch) THEN s
    ELSE Only({FirstPasses(t, i + 1) : t \in {TryAcquire(s, i)}})

SchedState ==
    [batch |-> batch, infl |-> inflightByHost, since |-> sinceStart,
     sinceHost |-> sinceHost, minGap |-> minGap, seen |-> seen]

SetSched(s) ==
    /\ batch' = s.batch
    /\ inflightByHost' = s.infl
    /\ sinceStart' = s.since
    /\ sinceHost' = s.sinceHost
    /\ minGap' = s.minGap
    /\ seen' = s.seen

\* One iteration of the outer loop up to Promise.allSettled: take a batch and
\* start its requests; an empty batch continues the loop.
Dispatch ==
    /\ pc = "loop"
    /\ LoopCond(Len(queue), Len(pages), cfg.maxPages)
    /\ LET t == TakeBatch(queue, visited, queued, <<>>, Len(pages))
           items == [i \in 1..Len(t.batch) |->
                        [url |-> t.batch[i].url, depth |-> t.batch[i].depth, st |-> "wait",
                         local |-> ~UsesCrawlScheduler(effectiveDelay, cfg.minDelayMs),
                         ord |-> 0]]
       IN  /\ queue' = t.queue
           /\ visited' = t.visited
           /\ queued' = t.queued
           /\ SetSched(FirstPasses([SchedState EXCEPT !.batch = items], 1))
           /\ pc' = IF items = <<>> THEN "loop" ELSE "drain"
    /\ UNCHANGED <<tmp, scrapeVars, cfg, site, run, robots, pages, errors, maxDepthReached, batches, idx,
                   file, result, enqLog, hydrated, freshCount, preRun>>

\* A polling request wakes up and is admitted.
Admit(i) ==
    /\ pc \in {"drain", "sched"}
    /\ i \in 1..Len(batch)
    /\ batch[i].st = "wait"
    /\ TryAcquire(SchedState, i) /= SchedState
    /\ SetSched(TryAcquire(SchedState, i))
    /\ UNCHANGED <<tmp, scrapeVars, cfg, site, pc, run, robots, visited, queued, queue, pages, errors,
                   maxDepthReached, batches, idx, file, result, enqLog, hydrated,
                   freshCount, preRun>>

Settled(b) == \A j \in 1..Len(b) : b[j].st \in {"ful", "rej"}
NumSettled(b) == Cardinality({j \in 1..Len(b) : b[j].st \in {"ful", "rej"}})

\* A running operation settles (fulfilled or rejected); run()'s finally
\* releases its slot.  The last one of a batch lets allSettled resolve.
Complete(i, o) ==
    /\ pc \in {"drain", "sched"}
    /\ i \in 1..Len(batch)
    /\ batch[i].st = "run"
    /\ MaySettle(batch[i].url, o)
    /\ batch' = [batch EXCEPT ![i].st = o, ![i].ord = NumSettled(batch) + 1]
    /\ inflightByHost' = IF batch[i].local THEN inflightByHost
                         ELSE [inflightByHost EXCEPT ![HostOf(batch[i].url)] = SlotAfter(o, @)]
    /\ pc' = IF pc = "drain" /\ Settled(batch') THEN "process" ELSE pc
    /\ idx' = IF pc = "drain" /\ Settled(batch') THEN 1 ELSE idx
    /\ UNCHANGED <<tmp, scrapeVars, cfg, site, run, robots, visited, queued, queue, pages, errors,
                   maxDepthReached, batches, sinceStart, file, result, seen, enqLog,
                   hydrated, sinceHost, minGap, freshCount, preRun>>

\* The clock is read by acquire's delay test only: it matters when the
\* crawl's scheduler or a request's own scheduler has a delay.
TimeMatters == cfg.minDelayMs > 0 \/ effectiveDelay > 0

\* Time passes by one unit.
Tick ==
    /\ pc \in {"drain", "sched"}
    /\ TimeMatters
    /\ \E h \in Hosts : sinceStart[h] < MaxDelay \/ (sinceHost[h] >= 0 /\ sinceHost[h] < MaxDelay)
    /\ sinceStart' = [h \in Hosts |-> Min(sinceStart[h] + 1, MaxDelay)]
    /\ sinceHost' = [h \in Hosts |-> IF sinceHost[h] < 0 THEN -1
                                     ELSE Min(sinceHost[h] + 1, MaxDelay)]
    /\ UNCHANGED <<tmp, scrapeVars, cfg, site, pc, run, robots, visited, queued, queue, pages, errors,
                   maxDepthReached, batches, batch, idx, inflightByHost, file, result,
                   seen, enqLog, hydrated, minGap, freshCount, preRun>>

\* What the disk does to one persistState: "ok"; "write": writeFile stops
\* midway and throws; "rename": the temp file is written, rename throws.
DiskMayFail == "disk" \in DOMAIN site
FlushOutcomes == IF DiskMayFail THEN {"ok", "write", "rename"} ELSE {"ok"}

\* A file whose write stopped midway: a prefix of the JSON text.
CutShort(s) == [s EXCEPT !.damage = "cut"]

\* persistState writing the payload to the state path itself.
persistStateInPlace(st, o) ==
    IF ~cfg.stateEnabled THEN [file |-> file, tmp |-> tmp]
    ELSE IF o = "write" THEN [file |-> Some(CutShort(Snapshot(st))), tmp |-> tmp]
    ELSE [file |-> Some(Snapshot(st)), tmp |-> tmp]

\* persistState: the two files after writeFile(tmp) and rename(tmp, statePath),
\* when crawl state is enabled.  A throw leaves the later statements undone.
persistState(st, o) ==
    IF ~cfg.stateEnabled THEN [file |-> file, tmp |-> tmp]
    ELSE IF o = "write" THEN [file |-> file, tmp |-> Some(CutShort(Snapshot(st)))]
    ELSE IF o = "rename" THEN [file |-> file, tmp |-> Some(Snapshot(st))]
    ELSE [file |-> Some(Snapshot(st)), tmp |-> Null]

\* A flush after every batch, whatever flushEvery says.
FlushEveryBatch(n) == cfg.stateEnabled

\* Whether the batch counter asks for a flush.
FlushDue(n) == cfg.stateEnabled /\ n % cfg.flushEvery = 0

\* The result loop taking the results in the order the scrapes settled.
ResultByCompletion(b, i) == b[CHOOSE j \in 1..Len(b) : b[j].ord = i]

\* results[i] with batch[i]: the i-th round of the result loop handles the
\* i-th item of the batch.
ResultAt(b, i) == b[i]

\* One round of the result loop; after the last round the batch counter is
\* bumped and the state flushed when due.
ProcessResult ==
    /\ pc = "process"
    /\ idx \in 1..Len(batch)
    /\ LET item == ResultAt(batch, idx)
           last == idx = Len(batch)
       IN  \E page \in (IF item.st = "ful" THEN PagesFor(item.url) ELSE {ErrPage(item.url)}),
              o \in FlushOutcomes :
              LET st == IF item.st = "ful" THEN ProcessFulfilled(CrawlState, item, page)
                        ELSE ProcessRejected(CrawlState, item)
                  disk == IF last /\ FlushDue(batches + 1) THEN persistState(st, o)
                          ELSE [file |-> file, tmp |-> tmp]
              IN  /\ SetState(st)
                  /\ enqLog' = enqLog \o Pushed(queue, st.queue)
                  /\ freshCount' = IF site.mode = "fresh" /\ item.st = "ful" /\ page.kind = "ok"
                                   THEN freshCount + MaxLinks ELSE freshCount
                  /\ batches' = IF last THEN batches + 1 ELSE batches
                  /\ file' = disk.file
                  /\ tmp' = disk.tmp
                  /\ pc' = IF last THEN "loop" ELSE "process"
                  /\ idx' = IF last THEN 0 ELSE idx + 1
                  /\ batch' = IF last THEN <<>> ELSE batch
    /\ UNCHANGED <<scrapeVars, cfg, site, run, robots, inflightByHost, sinceStart, result, seen,
                   hydrated, sinceHost, minGap, preRun>>

\* The loop has ended: the last flush, whose failure is swallowed, and the
\* CrawlResult.
Finish ==
    /\ pc = "loop"
    /\ ~LoopCond(Len(queue), Len(pages), cfg.maxPages)
    /\ \E o \in FlushOutcomes :
          /\ file' = persistState(CrawlState, o).file
          /\ tmp' = persistState(CrawlState, o).tmp
    /\ result' = Some([pages |-> pages, totalPages |-> Len(pages),
                       maxDepthReached |-> maxDepthReached, errors |-> errors])
    /\ pc' = "done"
    /\ UNCHANGED <<scrapeVars, cfg, site, run, robots, visited, queued, queue, pages, errors,
                   maxDepthReached, batches, batch, idx, inflightByHost, sinceStart,
                   seen, enqLog, hydrated, sinceHost, minGap, freshCount, preRun>>

\* crawl() is called again on the same state file (crawlState.id), for the
\* same start url or for a text that is no url, after the previous call
\* returned or its process died: memory is gone, the state file stays.
Restart ==
    /\ pc \in {"loop", "drain", "process", "done"}
    /\ run < MaxRuns
    /\ cfg.stateEnabled
    /\ \E n \in 1..MaxPagesBound, u \in {cfg.startUrl, UrlBad} :
          cfg' = [cfg EXCEPT !.maxPages = n, !.startUrl = u]
    /\ run' = run + 1
    /\ pc' = "start"
    /\ preRun' = IF pc = "done" THEN Some([maxPages |-> cfg.maxPages, totalPages |-> Len(pages)])
                 ELSE Null
    /\ robots' = Null
    /\ SetState([queue |-> <<>>, visited |-> {}, queued |-> {}, pages |-> <<>>,
                 errors |-> <<>>, maxDepthReached |-> 0])
    /\ batches' = 0
    /\ batch' = <<>>
    /\ idx' = 0
    /\ inflightByHost' = NoHost
    /\ sinceStart' = [h \in Hosts |-> MaxDelay]
    /\ sinceHost' = [h \in Hosts |-> -1]
    /\ minGap' = -1
    /\ seen' = <<>>
    /\ enqLog' = <<>>
    /\ hydrated' = {}
    /\ result' = Null
    /\ UNCHANGED <<tmp, scrapeVars, site, file, freshCount>>

\* The BrowserManager as constructed: no browser, no launch promise, no idle
\* timer, no call under way.  Browsers and launches are numbered from 1.
NoBrowser ==
    [browser |-> 0, launchPromise |-> 0, timer |-> "none", launches |-> 0, pending |-> {},
     failed |-> {}, live |-> {}, closing |-> {}, closes |-> 0, getters |-> <<>>]

(***************************************************************************)
(* The crawl.                                                              *)
(***************************************************************************)
InitAt(c, s, p) ==
    /\ cfg = c
    /\ site = s
    /\ pc = p
    /\ run = 1
    /\ robots = Null
    /\ visited = {}
    /\ queued = {}
    /\ queue = <<>>
    /\ pages = <<>>
    /\ errors = <<>>
    /\ maxDepthReached = 0
    /\ batches = 0
    /\ batch = <<>>
    /\ idx = 0
    /\ inflightByHost = NoHost
    /\ sinceStart = [h \in Hosts |-> MaxDelay]
    /\ file = Null
    /\ result = Null
    /\ seen = <<>>
    /\ enqLog = <<>>
    /\ hydrated = {}
    /\ sinceHost = [h \in Hosts |-> -1]
    /\ minGap = -1
    /\ freshCount = 0
    /\ preRun = Null
    /\ tmp = Null
    /\ cache = <<>>
    /\ now = 0
    /\ diskKv = {}
    /\ call = Null
    /\ fetchCall = Null
    /\ bm = NoBrowser

InitWith(c, s) == InitAt(c, s, "start")

\* Budget, depth and batch width over a site that answers anything.
ConfigsCore ==
    {[BaseCfg EXCEPT !.maxDepth = d, !.maxPages = n, !.concurrency = c,
                     !.perHostConcurrency = c] :
        d \in 0..MaxDepthBound, n \in 1..MaxPagesBound, c \in 1..MaxConcurrency}

SiteCore == AnySite({UrlASlash, UrlP, UrlPX}, {UrlP}, {Null})

\* Robots and sitemap: robots.txt may be missing, disallow /p, or disallow
\* /p and allow /px.
ConfigsRobots ==
    {[BaseCfg EXCEPT !.robotsEnabled = r, !.sitemapEnabled = m, !.maxDepth = 1] :
        r \in BOOLEAN, m \in BOOLEAN}

RobotsOf(rules) == Some([origin |-> BaseOrigin, rules |-> rules])

SiteRobots ==
    AnySite({UrlA, UrlP, UrlPX}, {UrlP},
            {Null, RobotsOf(RulesDisallowP(0)), RobotsOf(RulesAllowPX(0))})

\* Throttling: per-host cap, minimum delay and robots Crawl-delay.
ConfigsSched ==
    {[BaseCfg EXCEPT !.perHostConcurrency = k, !.minDelayMs = d, !.robotsEnabled = r,
                     !.respectCrawlDelay = y] :
        k \in 1..MaxConcurrency, d \in 0..MaxDelay, r \in BOOLEAN, y \in BOOLEAN}

SiteSched == AnySite({UrlA, UrlP}, {}, {RobotsOf(RulesOpen(d)) : d \in 0..MaxDelay})

\* Persisted crawl state.
ConfigsState ==
    {[BaseCfg EXCEPT !.stateEnabled = TRUE, !.flushEvery = f, !.persistPages = pp,
                     !.maxPages = n] :
        f \in 1..2, pp \in BOOLEAN, n \in 1..MaxPagesBound}

SiteState == AnySite({UrlA, UrlP}, {UrlP}, {Null})

\* Fixed sites, with persisted state.
ConfigsFixed ==
    {[BaseCfg EXCEPT !.stateEnabled = TRUE, !.maxDepth = d, !.maxPages = n,
                     !.concurrency = c, !.perHostConcurrency = c] :
        d \in 1..MaxDepthBound, n \in 1..MaxPagesBound, c \in 1..(MaxConcurrency + 1)}

SitesFixed == {SitePlain, SiteRedirect, SiteDedup, SiteChain, SiteFailing}

\* Links and sitemap entries that leave the start url's origin.
ConfigsOrigin ==
    {[BaseCfg EXCEPT !.robotsEnabled = r, !.sitemapEnabled = m] :
        r \in BOOLEAN, m \in BOOLEAN}

SiteOrigin == AnySite({UrlA, UrlOther, UrlEvil}, {}, {Null, RobotsOf(RulesOpen(0))})

\* include / exclude patterns, with and without sitemap seeding.
PatternP == <<"/", "p">>
PatternX == <<"x">>

ConfigsPatterns ==
    {[BaseCfg EXCEPT !.includePatterns = inc, !.excludePatterns = exc,
                     !.sitemapEnabled = m, !.maxDepth = 1] :
        inc \in {{}, {PatternP}}, exc \in {{}, {PatternX}}, m \in BOOLEAN}
    \ {[BaseCfg EXCEPT !.sitemapEnabled = m, !.maxDepth = 1] : m \in BOOLEAN}

SitePatterns == AnySite({UrlA, UrlP, UrlPX}, {}, {Null})

Init ==
    \/ \E c \in ConfigsCore : InitWith(c, SiteCore)
    \/ \E c \in ConfigsRobots : InitWith(c, SiteRobots)
    \/ \E c \in ConfigsSched : InitWith(c, SiteSched)
    \/ \E c \in ConfigsState : InitWith(c, SiteState)
    \/ \E c \in ConfigsFixed, s \in SitesFixed : InitWith(c, s)
    \/ \E c \in ConfigsOrigin : InitWith(c, SiteOrigin)
    \/ \E c \in ConfigsPatterns, s \in {SitePatterns, SiteFailing} : InitWith(c, s)

Next ==
    \/ Start
    \/ Dispatch
    \/ \E i \in 1..(MaxConcurrency + 1) : Admit(i)
    \/ \E i \in 1..(MaxConcurrency + 1), o \in {"ful", "rej"} : Complete(i, o)
    \/ Tick
    \/ ProcessResult
    \/ Finish
    \/ Restart

Spec == Init /\ [][Next]_vars

(***************************************************************************)
(* The crawl entered with a start url that parses or not, with robots,     *)
(* sitemap and persisted state all enabled.                                *)
(***************************************************************************)
ConfigsSeed ==
    {[BaseCfg EXCEPT !.startUrl = u, !.robotsEnabled = TRUE, !.sitemapEnabled = TRUE,
                     !.stateEnabled = TRUE, !.perHostConcurrency = 1, !.maxPages = n] :
        u \in {UrlRoot, UrlBad}, n \in 1..MaxPagesBound}

SiteSeed == AnySite({UrlA, UrlP}, {}, {RobotsOf(RulesOpen(d)) : d \in {0, MaxDelay}})

SeedInit == \E c \in ConfigsSeed : InitWith(c, SiteSeed)

SeedSpec == SeedInit /\ [][Next]_vars

(***************************************************************************)
(* The crawl with persisted state on a disk that may fail a write or a     *)
(* rename, and a state file that may be damaged between two invocations.   *)
(***************************************************************************)
\* The site s, on a disk that may fail.
Flaky(s) == [f \in DOMAIN s \cup {"disk"} |-> IF f = "disk" THEN "flaky" ELSE s[f]]

\* The state file is damaged while no crawl runs on it.
Corrupt(d) ==
    /\ pc = "start"
    /\ run > 1
    /\ file /= Null
    /\ The(file).damage = "none"
    /\ file' = Some([The(file) EXCEPT !.damage = d])
    /\ UNCHANGED <<tmp, scrapeVars, cfg, site, pc, run, robots, visited, queued, queue, pages,
                   errors, maxDepthReached, batches, batch, idx, inflightByHost, sinceStart,
                   result, seen, enqLog, hydrated, sinceHost, minGap, freshCount, preRun>>

DiskInit == \E c \in ConfigsState, s \in {SitePlain, SiteFailing} : InitWith(c, Flaky(s))

DiskNext ==
    \/ Start
    \/ Dispatch
    \/ \E i \in 1..MaxConcurrency, o \in {"ful", "rej"} : Complete(i, o)
    \/ ProcessResult
    \/ Finish
    \/ Restart
    \/ \E d \in Damages : Corrupt(d)

DiskSpec == DiskInit /\ [][DiskNext]_vars

(***************************************************************************)
(* The crawl seeded from one given sitemap.xml response, on a site whose   *)
(* pages have no links.                                                    *)
(***************************************************************************)
ConfigsMap ==
    {[BaseCfg EXCEPT !.sitemapEnabled = TRUE, !.sitemapMaxUrls = k, !.robotsEnabled = r,
                     !.includePatterns = inc, !.stateEnabled = TRUE] :
        k \in 1..MaxLinks, r \in BOOLEAN, inc \in {{}, {PatternP}}}

SiteFlat(res) ==
    [mode |-> "fixed", raw |-> {}, finals |-> {},
     robots |-> {Null, RobotsOf(RulesDisallowP(0))},
     map |-> [u \in {UrlRoot, UrlA, UrlP, UrlPX, UrlOther} |-> Page(u, <<>>)],
     sitemaps |-> {res}]

MapInit ==
    \E c \in ConfigsMap, res \in SitemapResponsesOver({UrlRoot, UrlASlash, UrlP, UrlOther}) :
        InitWith(c, SiteFlat(res))

MapNext ==
    \/ Start
    \/ Dispatch
    \/ \E i \in 1..MaxConcurrency, o \in {"ful", "rej"} : Complete(i, o)
    \/ ProcessResult
    \/ Finish
    \/ Restart

MapSpec == MapInit /\ [][MapNext]_vars

(***************************************************************************)
(* The crawl over a site that redirects and a site that fails, with        *)
(* persisted state and resumed runs.                                       *)
(***************************************************************************)
VisitInit == \E c \in ConfigsState, s \in {SiteRedirect, SiteFailing, SiteState} : InitWith(c, s)

VisitNext ==
    \/ Start
    \/ Dispatch
    \/ \E i \in 1..MaxConcurrency, o \in {"ful", "rej"} : Complete(i, o)
    \/ ProcessResult
    \/ Finish
    \/ Restart

VisitSpec == VisitInit /\ [][VisitNext]_vars

(***************************************************************************)
(* Resumed runs over sites that redirect or fail, and over a flat site     *)
(* with a sitemap.                                                         *)
(***************************************************************************)
ResumeInit == VisitInit \/ MapInit

ResumeSpec == ResumeInit /\ [][VisitNext]_vars

(***************************************************************************)
(* The crawl with and without persisted state, on a disk that does not     *)
(* fail.                                                                   *)
(***************************************************************************)
FlushInit == VisitInit \/ \E c \in ConfigsCore : InitWith(c, SiteChain)

FlushSpec == FlushInit /\ [][VisitNext]_vars

(***************************************************************************)
(* isAllowedByRobots applied to a url and a parsed robots.txt.             *)
(***************************************************************************)
\* The values of Allow and Disallow lines: empty, /, /p and /px.
RuleTexts == {<<>>, <<"/">>, <<"/", "p">>, <<"/", "p", "x">>}

RuleSets ==
    [disallow : SeqsUpTo(RuleTexts, MaxRules), allow : SeqsUpTo(RuleTexts, MaxRules),
     crawlDelayMs : {0}]

RobotsInit == InitAt(BaseCfg, AnySite({}, {}, {Null}), "robots")

\* isAllowedByRobots(url, robots) is called and returns.
RobotsCheck(u, rb) ==
    /\ pc = "robots"
    /\ call = Null
    /\ call' = Some([url |-> u, robots |-> rb, allowed |-> isAllowedByRobots(u, rb)])
    /\ UNCHANGED <<tmp, cache, now, diskKv, fetchCall, bm, cfg, site, pc, run, robots, visited, queued,
                   queue, pages, errors, maxDepthReached, batches, batch, idx, inflightByHost,
                   sinceStart, file, result, seen, enqLog, hydrated, sinceHost, minGap,
                   freshCount, preRun>>

RobotsNext ==
    /\ call = Null
    /\ \E u \in {UrlRoot, UrlA, UrlP, UrlPX, UrlOther, UrlBad}, o \in {BaseOrigin, OtherOrigin},
          rules \in RuleSets :
           RobotsCheck(u, [origin |-> o, rules |-> rules])

RobotsSpec == RobotsInit /\ [][RobotsNext]_vars

(***************************************************************************)
(* parseRobotsTxt applied to a robots.txt and the crawler's user agent.    *)
(***************************************************************************)
\* The crawler's user agent, and the values of User-agent lines: the
\* wildcard, a name the user agent contains, the same in upper case, and a
\* name it does not contain.
CrawlerAgent == <<"a", "c">>
AgentNames == {<<"*">>, <<"a">>, <<"A">>, <<"g">>}

\* The lines of a robots.txt that have a key and a value.
RobotsLines ==
    {[key |-> "user-agent", value |-> a] : a \in AgentNames}
    \cup {[key |-> "allow", value |-> <<"/", "p", "x">>],
          [key |-> "disallow", value |-> <<"/", "p">>],
          [key |-> "crawl-delay", value |-> 1]}

matchUserAgent(header, ua) ==
    LET h == LowerCase(header)
        u == LowerCase(ua)
    IN  IF h = <<>> THEN FALSE
        ELSE IF h = <<"*">> THEN TRUE
        ELSE Includes(u, h)

\* The loop over the lines: the sections so far (current is the last one)
\* and, for each line read, the section it went to (0 for none).
RECURSIVE parseLines(_, _, _)
parseLines(lines, sections, owner) ==
    IF lines = <<>> THEN [sections |-> sections, owner |-> owner]
    ELSE LET line == Head(lines)
             n == Len(sections)
             fresh == n = 0 \/ Len(sections[n].disallow) + Len(sections[n].allow) > 0
         IN  IF line.key = "user-agent"
             THEN IF fresh
                  THEN parseLines(Tail(lines),
                                  Append(sections, [agents |-> <<line.value>>, disallow |-> <<>>,
                                                    allow |-> <<>>, crawlDelaySec |-> Null]),
                                  Append(owner, n + 1))
                  ELSE parseLines(Tail(lines),
                                  [sections EXCEPT ![n].agents = Append(@, line.value)],
                                  Append(owner, n))
             ELSE IF n = 0 THEN parseLines(Tail(lines), sections, Append(owner, 0))
             ELSE IF line.key = "disallow"
                  THEN parseLines(Tail(lines),
                                  [sections EXCEPT ![n].disallow = Append(@, line.value)],
                                  Append(owner, n))
             ELSE IF line.key = "allow"
                  THEN parseLines(Tail(lines),
                                  [sections EXCEPT ![n].allow = Append(@, line.value)],
                                  Append(owner, n))
             ELSE parseLines(Tail(lines),
                             [sections EXCEPT ![n].crawlDelaySec = Some(line.value)],
                             Append(owner, n))

\* Array.find: the first index of secs in ks, 0 for undefined.
FirstIn(ks) == IF ks = {} THEN 0 ELSE CHOOSE k \in ks : \A m \in ks : k <= m

\* The section chosen: the first matching one with an agent that is not *,
\* else the first matching one with an agent *.
bestSection(sections, ua) ==
    LET matching == {k \in 1..Len(sections) :
                        \E i \in 1..Len(sections[k].agents) :
                            matchUserAgent(sections[k].agents[i], ua)}
        named == {k \in matching :
                     \E i \in 1..Len(sections[k].agents) : sections[k].agents[i] /= <<"*">>}
        starred == {k \in matching :
                       \E i \in 1..Len(sections[k].agents) : sections[k].agents[i] = <<"*">>}
    IN  IF named /= {} THEN FirstIn(named) ELSE FirstIn(starred)

parseRobotsTxt(origin, content, ua) ==
    LET parsed == parseLines(content, <<>>, <<>>)
        best == bestSection(parsed.sections, ua)
    IN  [origin |-> origin,
         rules |-> IF best = 0 THEN [disallow |-> <<>>, allow |-> <<>>, crawlDelayMs |-> 0]
                   ELSE [disallow |-> parsed.sections[best].disallow,
                         allow |-> parsed.sections[best].allow,
                         crawlDelayMs |-> IF parsed.sections[best].crawlDelaySec = Null THEN 0
                                          ELSE The(parsed.sections[best].crawlDelaySec) * 1000],
         sections |-> parsed.sections, owner |-> parsed.owner, best |-> best]

ParseInit == InitAt(BaseCfg, AnySite({}, {}, {Null}), "parse")

\* parseRobotsTxt(origin, content, userAgent) is called and returns.
ParseCall(content) ==
    /\ pc = "parse"
    /\ call = Null
    /\ call' = Some([content |-> content, userAgent |-> CrawlerAgent,
                     parsed |-> parseRobotsTxt(BaseOrigin, content, CrawlerAgent)])
    /\ UNCHANGED <<tmp, cache, now, diskKv, fetchCall, bm, cfg, site, pc, run, robots, visited, queued,
                   queue, pages, errors, maxDepthReached, batches, batch, idx, inflightByHost,
                   sinceStart, file, result, seen, enqLog, hydrated, sinceHost, minGap,
                   freshCount, preRun>>

ParseNext == \E content \in SeqsUpTo(RobotsLines, MaxLines) : ParseCall(content)

ParseSpec == ParseInit /\ [][ParseNext]_vars

(***************************************************************************)
(* One fresh crawl, without persisted state, over a site that may redirect *)
(* and fail.                                                               *)
(***************************************************************************)
AccountInit == \E c \in ConfigsCore, s \in {SiteCore, SiteFailing} : InitWith(c, s)

AccountNext ==
    \/ Start
    \/ Dispatch
    \/ \E i \in 1..MaxConcurrency, o \in {"ful", "rej"} : Complete(i, o)
    \/ ProcessResult
    \/ Finish

AccountSpec == AccountInit /\ [][AccountNext]_vars

\* crawl() takes concurrency and maxPages as given (only a missing value is
\* replaced by its default), so zero is among the values it runs with.
ConfigsAccepted ==
    {[BaseCfg EXCEPT !.maxPages = n, !.concurrency = c, !.perHostConcurrency = c] :
        n \in 0..MaxPagesBound, c \in 0..MaxConcurrency}

LoopInit == \E c \in ConfigsAccepted, s \in {SiteCore, SiteFailing} : InitWith(c, s)

LoopSpec == LoopInit /\ [][AccountNext]_vars

(***************************************************************************)
(* CacheManager: a Map in insertion order under get, set and clear.        *)
(***************************************************************************)
\* The index of key k in the Map c, 0 when absent.
KeyIndex(c, k) == IF \E i \in 1..Len(c) : c[i].key = k
                  THEN CHOOSE i \in 1..Len(c) : c[i].key = k ELSE 0

\* Map.delete.
MapDelete(c, k) == SelectSeq(c, LAMBDA e : e.key /= k)

\* Map.set: an existing key keeps its place, a new key goes last.
MapSet(c, k, e) == IF KeyIndex(c, k) > 0 THEN [c EXCEPT ![KeyIndex(c, k)] = e] ELSE Append(c, e)

\* get at time t; expired tells whether the entry's ttl has run out.
\* Gives the Map after the call and the data returned (Null for null).
cacheGet(c, k, t, expired) ==
    IF KeyIndex(c, k) = 0 THEN [cache |-> c, data |-> Null]
    ELSE IF expired THEN [cache |-> MapDelete(c, k), data |-> Null]
    ELSE LET item == c[KeyIndex(c, k)]
         IN  [cache |-> MapSet(MapDelete(c, k), k, [item EXCEPT !.timestamp = t]),
              data |-> Some(item.data)]

\* set at time t: the first key of the Map is evicted when the Map is full.
cacheSet(c, k, d, t, maxSize) ==
    LET e == [key |-> k, data |-> d, timestamp |-> t]
    IN  IF Len(c) >= maxSize /\ c /= <<>>
        THEN MapSet(Tail(c), k, e)
        ELSE MapSet(c, k, e)

CacheKeys == {"a", "b", "c", "d"}

CacheInit == \E n \in 1..MaxCacheSize : InitAt([maxSize |-> n], AnySite({}, {}, {Null}), "cache")

CacheStep(c) ==
    /\ pc = "cache"
    /\ now < MaxOps
    /\ now' = now + 1
    /\ cache' = c
    /\ UNCHANGED <<tmp, diskKv, call, fetchCall, bm, cfg, site, pc, run, robots, visited, queued,
                   queue, pages, errors, maxDepthReached, batches, batch, idx, inflightByHost,
                   sinceStart, file, result, seen, enqLog, hydrated, sinceHost, minGap,
                   freshCount, preRun>>

CacheGet(k, expired) == CacheStep(cacheGet(cache, k, now + 1, expired).cache)
CacheSet(k) == CacheStep(cacheSet(cache, k, "page", now + 1, cfg.maxSize))
CacheClear == CacheStep(<<>>)

CacheNext ==
    \/ \E k \in CacheKeys, expired \in BOOLEAN : CacheGet(k, expired)
    \/ \E k \in CacheKeys : CacheSet(k)
    \/ CacheClear

CacheSpec == CacheInit /\ [][CacheNext]_vars

(***************************************************************************)
(* SmartFetcher.fetch against the answers of the network.                  *)
(***************************************************************************)
\* What one global fetch() gives: a response (status; body "doc" for
\* static HTML, "csr" for a page that needs JavaScript), or a rejection.
HttpResponses ==
    {[kind |-> "response", status |-> s, body |-> b] :
        s \in {200, 404, 500, 503}, b \in {"doc", "csr"}}
    \cup {[kind |-> "response", status |-> 403, body |-> "doc"],
          [kind |-> "rejection", status |-> 0, body |-> ""]}

requiresJavaScript(body) == body /= "doc"

\* The headers of a response, as the set of their names.
ResponseHeaders == {"content-type"}

\* A FetchResult; the optional fields are Null when the object has none.
\* Only the result of an exhausted loop (status 0) has no headers.
FetchResult(status, html, ok) ==
    [status |-> status, html |-> html, isStaticSuccess |-> ok,
     headers |-> IF status = 0 THEN {} ELSE ResponseHeaders,
     needsBrowser |-> Null, error |-> Null]

\* What sends the loop through its catch block: a rejected fetch, or the
\* throw on a 5xx response.
Thrown(r) == r.kind = "rejection" \/ (r.status >= 500)

\* The attempt loop, rs being the answers of the successive fetch() calls
\* and calls the number of them made so far.
RECURSIVE fetchLoop(_, _, _, _)
fetchLoop(rs, attempt, retries, calls) ==
    IF attempt > retries THEN [result |-> FetchResult(0, "", FALSE), calls |-> calls]
    ELSE LET r == rs[calls + 1]
         IN  IF Thrown(r)
             THEN IF attempt + 1 > retries
                  THEN [result |-> FetchResult(0, "", FALSE), calls |-> calls + 1]
                  ELSE fetchLoop(rs, attempt + 1, retries, calls + 1)
             ELSE IF r.status \in {401, 403}
                  THEN [result |-> FetchResult(r.status, "", FALSE), calls |-> calls + 1]
             ELSE [result |-> FetchResult(r.status, r.body, ~requiresJavaScript(r.body)),
                   calls |-> calls + 1]

fetch(rs, retries) == fetchLoop(rs, 0, retries, 0)

FetchInit == InitAt(BaseCfg, AnySite({}, {}, {Null}), "fetch")

\* fetch(url, {retries}) is called and runs to its return.
FetchCall(retries, rs) ==
    /\ pc = "fetch"
    /\ fetchCall = Null
    /\ fetchCall' = Some([retries |-> retries, responses |-> rs,
                          calls |-> fetch(rs, retries).calls,
                          result |-> fetch(rs, retries).result])
    /\ UNCHANGED <<tmp, cache, now, diskKv, call, bm, cfg, site, pc, run, robots, visited, queued,
                   queue, pages, errors, maxDepthReached, batches, batch, idx, inflightByHost,
                   sinceStart, file, result, seen, enqLog, hydrated, sinceHost, minGap,
                   freshCount, preRun>>

FetchNext == \E retries \in 0..MaxRetries : \E rs \in [1..(retries + 1) -> HttpResponses] :
                FetchCall(retries, rs)

FetchSpec == FetchInit /\ [][FetchNext]_vars

(***************************************************************************)
(* AgentCrawl.scrape: caches, static fetch, browser fallback, error pages, *)
(* chunking.                                                               *)
(***************************************************************************)
DefaultRetries == 2
DefaultMaxSize == 100

ScrapeUrl == "https://example.com/app"

ScrapeConfigs == [mode : {"static", "hybrid", "browser"}, chunking : BOOLEAN, cache : BOOLEAN]

\* The key leaves out config.chunking and config.cache; the other parts are
\* at their defaults in every call here.
getCacheKey(url, conf) == <<url, conf.mode, "full", "optimized", "no-stealth", "balanced", "">>

\* What this.fetcher.fetch can give: the results of SmartFetcher.fetch with
\* its default retries, and the results of the fetchers the tests install.
InstalledResults ==
    {[status |-> 200, html |-> "doc", isStaticSuccess |-> TRUE, headers |-> {},
      needsBrowser |-> Some(FALSE), error |-> Null],
     [status |-> 404, html |-> "", isStaticSuccess |-> FALSE, headers |-> ResponseHeaders,
      needsBrowser |-> Some(FALSE), error |-> Some("HTTP 404")],
     [status |-> 200, html |-> "", isStaticSuccess |-> FALSE, headers |-> ResponseHeaders,
      needsBrowser |-> Some(TRUE), error |-> Some("Detected client-side rendered content")]}

StaticResults ==
    {fetch(rs, DefaultRetries).result : rs \in [1..(DefaultRetries + 1) -> HttpResponses]}
    \cup InstalledResults

\* What browserManager.getPage can do: give a page, or throw.
BrowserResults ==
    {[kind |-> "page", html |-> "doc", status |-> s, headers |-> {"x-source"}] :
        s \in {200, 503}}
    \cup {[kind |-> "page", html |-> "", status |-> 200, headers |-> {"x-source"}],
          [kind |-> "throw", html |-> "", status |-> 0, headers |-> {}]}

Is2xx(status) == status >= 200 /\ status < 300

\* needsBrowser and error as conditions; a missing field is falsy.
IsSet(flag) == flag /= Null /\ The(flag)
HasText(text) == text /= Null /\ The(text) /= ""

toErrorPage(url, error, status, headers) ==
    [url |-> url, content |-> "", error |-> Some(error), status |-> status,
     headers |-> headers, chunks |-> Null]

\* DiskKv.get and DiskKv.set on the set of stored files.
diskGet(d, k, expired) ==
    IF ~\E e \in d : e.key = k THEN [disk |-> d, value |-> Null]
    ELSE IF expired THEN [disk |-> {e \in d : e.key /= k}, value |-> Null]
    ELSE [disk |-> d, value |-> Some((CHOOSE e \in d : e.key = k).value)]

diskSet(d, k, v) == {e \in d : e.key /= k} \cup {[key |-> k, value |-> v]}

\* Whether the browser is asked, after a static fetch that gave res.
fallbackOnAnyFailure(mode, res) == mode = "hybrid" /\ ~res.isStaticSuccess
shouldUseBrowserFallback(mode, res) ==
    mode = "hybrid" /\ ~res.isStaticSuccess /\ IsSet(res.needsBrowser)

\* Step 1: the static fetch, in modes static and hybrid.
staticPhase(mode, res) ==
    IF mode = "browser"
    THEN [html |-> "", status |-> 0, headers |-> {}, staticError |-> Null,
          fallback |-> TRUE, invoked |-> <<>>]
    ELSE [html |-> IF res.isStaticSuccess THEN res.html ELSE "",
          status |-> res.status,
          headers |-> res.headers,
          staticError |->
              IF res.isStaticSuccess THEN Null
              ELSE IF IsSet(res.needsBrowser) /\ mode = "hybrid" THEN Null
              ELSE IF IsSet(res.needsBrowser) /\ mode = "static"
                   THEN Some("Static mode detected dynamic content")
              ELSE IF HasText(res.error) THEN res.error
              ELSE IF res.status /= 0 THEN Some("Static fetch failed: HTTP status")
              ELSE Some("Static fetch failed"),
          fallback |-> shouldUseBrowserFallback(mode, res),
          invoked |-> <<"static">>]

\* Steps 2 and 3 and the chunking: the page scrape builds when no cache has
\* one, and whether it went through to the end (only then is it cached).
buildPage(url, conf, sres, bres) ==
    LET s == staticPhase(conf.mode, sres)
        asks == s.fallback /\ s.html = ""
        invoked == IF asks THEN Append(s.invoked, "browser") ELSE s.invoked
        html == IF asks THEN bres.html ELSE s.html
        status == IF asks THEN bres.status ELSE s.status
        headers == IF asks THEN bres.headers ELSE s.headers
        failed(p) == [page |-> p, invoked |-> invoked, done |-> FALSE]
    IN  IF asks /\ bres.kind = "throw"
        THEN failed(toErrorPage(url, "Browser scrape failed", 0, s.headers))
        ELSE IF asks /\ ~Is2xx(status)
        THEN failed(toErrorPage(url, "Browser fetch returned HTTP status", status, headers))
        ELSE IF html = ""
        THEN IF s.staticError /= Null
             THEN failed(toErrorPage(url, The(s.staticError), status, headers))
             ELSE failed(toErrorPage(url, "No HTML content was fetched", status, headers))
        ELSE [page |-> [url |-> url, content |-> "md", error |-> Null, status |-> status,
                        headers |-> headers,
                        chunks |-> IF conf.chunking THEN Some("chunks") ELSE Null],
              invoked |-> invoked, done |-> TRUE]

\* A scrape that stores whatever page it built, error pages too.
scrapeStoringFailures(c, d, url, conf, sres, bres, memExpired, diskExpired, t) ==
    LET key == getCacheKey(url, conf)
        mem == cacheGet(c, key, t, memExpired)
        disk == IF conf.cache THEN diskGet(d, key, diskExpired) ELSE [disk |-> d, value |-> Null]
        built == buildPage(url, conf, sres, bres)
        log(hit, inv, page) ==
            [conf |-> conf, hit |-> hit, invoked |-> inv, page |-> page,
             sres |-> IF \E i \in 1..Len(inv) : inv[i] = "static" THEN Some(sres) ELSE Null,
             bres |-> IF \E i \in 1..Len(inv) : inv[i] = "browser" THEN Some(bres) ELSE Null]
    IN  IF mem.data /= Null
        THEN [cache |-> mem.cache, disk |-> d, call |-> log("memory", <<>>, The(mem.data))]
        ELSE IF disk.value /= Null
        THEN [cache |-> cacheSet(mem.cache, key, The(disk.value), t, cfg.maxSize),
              disk |-> disk.disk, call |-> log("disk", <<>>, The(disk.value))]
        ELSE [cache |-> cacheSet(mem.cache, key, built.page, t, cfg.maxSize),
              disk |-> IF conf.cache THEN diskSet(disk.disk, key, built.page) ELSE disk.disk,
              call |-> log("none", built.invoked, built.page)]

\* scrape(url, conf) at time t: the caches and the log of the call after it.
scrape(c, d, url, conf, sres, bres, memExpired, diskExpired, t) ==
    LET key == getCacheKey(url, conf)
        mem == cacheGet(c, key, t, memExpired)
        disk == IF conf.cache THEN diskGet(d, key, diskExpired) ELSE [disk |-> d, value |-> Null]
        built == buildPage(url, conf, sres, bres)
        log(hit, inv, page) ==
            [conf |-> conf, hit |-> hit, invoked |-> inv, page |-> page,
             sres |-> IF \E i \in 1..Len(inv) : inv[i] = "static" THEN Some(sres) ELSE Null,
             bres |-> IF \E i \in 1..Len(inv) : inv[i] = "browser" THEN Some(bres) ELSE Null]
    IN  IF mem.data /= Null
        THEN [cache |-> mem.cache, disk |-> d, call |-> log("memory", <<>>, The(mem.data))]
        ELSE IF disk.value /= Null
        THEN [cache |-> cacheSet(mem.cache, key, The(disk.value), t, cfg.maxSize),
              disk |-> disk.disk, call |-> log("disk", <<>>, The(disk.value))]
        ELSE IF ~built.done
        THEN [cache |-> mem.cache, disk |-> disk.disk,
              call |-> log("none", built.invoked, built.page)]
        ELSE [cache |-> cacheSet(mem.cache, key, built.page, t, cfg.maxSize),
              disk |-> IF conf.cache THEN diskSet(disk.disk, key, built.page) ELSE disk.disk,
              call |-> log("none", built.invoked, built.page)]

ScrapeInit == InitAt([maxSize |-> DefaultMaxSize], AnySite({}, {}, {Null}), "scrape")

\* One call of scrape, run to its return.
ScrapeCall(conf, sres, bres, memExpired, diskExpired) ==
    /\ pc = "scrape"
    /\ now < MaxScrapes
    /\ now' = now + 1
    /\ \E r \in {scrape(cache, diskKv, ScrapeUrl, conf, sres, bres, memExpired, diskExpired,
                        now + 1)} :
          /\ cache' = r.cache
          /\ diskKv' = r.disk
          /\ call' = Some(r.call)
    /\ UNCHANGED <<tmp, fetchCall, bm, cfg, site, pc, run, robots, visited, queued,
                   queue, pages, errors, maxDepthReached, batches, batch, idx, inflightByHost,
                   sinceStart, file, result, seen, enqLog, hydrated, sinceHost, minGap,
                   freshCount, preRun>>

ScrapeNext ==
    \E conf \in ScrapeConfigs, sres \in StaticResults, bres \in BrowserResults,
       memExpired \in BOOLEAN, diskExpired \in BOOLEAN :
        ScrapeCall(conf, sres, bres, memExpired, diskExpired)

ScrapeSpec == ScrapeInit /\ [][ScrapeNext]_vars

(***************************************************************************)
(* normalizeUrl applied to a url text, and again to its own output.        *)
(***************************************************************************)
NormOrigins == {<<"h", "a">>, <<"h", "A">>, <<"h", "a", ":", "d">>, <<"h", "a", ":", "o">>}
NormPaths == {<<"/">>, <<"/", "a">>, <<"/", "a", "/">>, <<"/", "a", "/", "/">>, <<"/", "/">>}
NormQueries == {<<>>, <<"?", "t">>, <<"?", "k">>, <<"?", "k", "j">>, <<"?", "t", "k", "t">>}
NormHashes == {<<>>, <<"#", "f">>}
NormInputs == {o \o p \o q \o f : o \in NormOrigins, p \in NormPaths, q \in NormQueries,
                                    f \in NormHashes}

\* seen logs the input and the successive outputs.
NormInit ==
    \E u \in NormInputs :
        /\ InitAt([BaseCfg EXCEPT !.startUrl = u], AnySite({}, {}, {Null}), "norm")

Normalize ==
    /\ pc = "norm"
    /\ Len(seen) < MaxApplications
    /\ seen' = Append(seen, normalizeUrl(IF seen = <<>> THEN cfg.startUrl ELSE seen[Len(seen)]))
    /\ UNCHANGED <<tmp, scrapeVars, cfg, site, pc, run, robots, visited, queued, queue, pages, errors,
                   maxDepthReached, batches, batch, idx, inflightByHost, sinceStart, file,
                   result, enqLog, hydrated, sinceHost, minGap, freshCount, preRun>>

NormNext == Normalize

NormSpec == NormInit /\ [][NormNext]_vars

(***************************************************************************)
(* The crawl of an endless site, under fair scheduling.                    *)
(***************************************************************************)
\* maxDepth never cuts the frontier here: it exceeds every page budget.
ConfigsLive ==
    {[BaseCfg EXCEPT !.maxDepth = MaxPagesBound + MaxDepthBound, !.maxPages = n,
                     !.concurrency = c, !.perHostConcurrency = k, !.minDelayMs = d] :
        n \in 1..MaxPagesBound, c \in 1..MaxConcurrency, k \in 1..MaxConcurrency,
        d \in {0, MaxDelay}}

LiveInit == \E c \in ConfigsLive : InitWith(c, FreshSite)

LiveNext ==
    \/ Start
    \/ Dispatch
    \/ \E i \in 1..MaxConcurrency : Admit(i)
    \/ \E i \in 1..MaxConcurrency, o \in {"ful", "rej"} : Complete(i, o)
    \/ Tick
    \/ ProcessResult
    \/ Finish

\* The event loop runs a continuation that is ready, timers fire, and every
\* scrape settles: some step is taken whenever one is possible.
LiveSpec == LiveInit /\ [][LiveNext]_vars /\ WF_vars(LiveNext)

(***************************************************************************)
(* One HostScheduler under concurrent run(host, op) calls.                 *)
(***************************************************************************)
ConfigsHarness ==
    {[BaseCfg EXCEPT !.perHostConcurrency = k, !.minDelayMs = d] :
        k \in 1..MaxConcurrency, d \in 0..MaxDelay}

SchedInit == \E c \in ConfigsHarness : InitAt(c, AnySite({}, {}, {Null}), "sched")

\* run(host, op) is called: acquire's first pass runs at once.
RunCall(u) ==
    /\ pc = "sched"
    /\ Len(batch) < MaxCallers
    /\ LET items == Append(batch, [url |-> u, depth |-> 0, st |-> "wait", local |-> FALSE,
                                       ord |-> 0])
       IN  SetSched(TryAcquire([SchedState EXCEPT !.batch = items], Len(items)))
    /\ UNCHANGED <<tmp, scrapeVars, cfg, site, pc, run, robots, visited, queued, queue, pages, errors,
                   maxDepthReached, batches, idx, file, result, enqLog, hydrated,
                   freshCount, preRun>>

SchedNext ==
    \/ \E u \in {UrlRoot, UrlOther} : RunCall(u)
    \/ \E i \in 1..MaxCallers : Admit(i)
    \/ \E i \in 1..MaxCallers, o \in {"ful", "rej"} : Complete(i, o)
    \/ Tick

SchedSpec == SchedInit /\ [][SchedNext]_vars

(***************************************************************************)
(* One HostScheduler whose callers call run(host, op) again and again,     *)
(* under fair scheduling.                                                  *)
(***************************************************************************)
\* A caller whose operation has settled calls run(host, op) once more:
\* acquire's first pass runs at once.  seen restarts with this call.
Rerun(i) ==
    /\ pc = "sched"
    /\ i \in 1..Len(batch)
    /\ batch[i].st \in {"ful", "rej"}
    /\ LET items == [batch EXCEPT ![i].st = "wait", ![i].ord = 0]
       IN  SetSched(TryAcquire([SchedState EXCEPT !.batch = items, !.seen = <<>>], i))
    /\ UNCHANGED <<tmp, scrapeVars, cfg, site, pc, run, robots, visited, queued, queue, pages, errors,
                   maxDepthReached, batches, idx, file, result, enqLog, hydrated,
                   freshCount, preRun>>

StarveNext ==
    \/ \E u \in {UrlRoot, UrlOther} : RunCall(u)
    \/ \E i \in 1..MaxCallers : Admit(i)
    \/ \E i \in 1..MaxCallers, o \in {"ful", "rej"} : Complete(i, o)
    \/ Tick
    \/ \E i \in 1..MaxCallers : Rerun(i)

\* A timer that is due fires and the poll it wakes runs; an admitted
\* operation settles; time passes.  A poll is admitted for sure only when
\* its test stays true until it runs.
StarveFairness ==
    /\ \A i \in 1..MaxCallers : WF_vars(Admit(i))
    /\ \A i \in 1..MaxCallers : WF_vars(\E o \in {"ful", "rej"} : Complete(i, o))
    /\ WF_vars(Tick)

StarveSpec == SchedInit /\ [][StarveNext]_vars /\ StarveFairness

(***************************************************************************)
(* BrowserManager under concurrent getPage and close calls; every await is *)
(* a point where another call may run.                                     *)
(***************************************************************************)
\* browser.isConnected(): true for a browser that is alive, either answer
\* for one whose close() is under way.
Connected(m) ==
    IF m.browser \notin m.live THEN {FALSE}
    ELSE IF m.browser \in m.closing THEN BOOLEAN ELSE {TRUE}

\* launch() up to its return: the manager after it, and the browser or the
\* launch promise it returns.
launch(m, connected) ==
    IF m.browser /= 0 /\ connected THEN [bm |-> m, browser |-> m.browser, promise |-> 0]
    ELSE LET m1 == IF m.browser /= 0 THEN [m EXCEPT !.browser = 0, !.launchPromise = 0] ELSE m
             m2 == IF m1.launchPromise = 0
                   THEN [m1 EXCEPT !.launches = @ + 1, !.launchPromise = m1.launches + 1,
                                   !.pending = @ \cup {m1.launches + 1}]
                   ELSE m1
         IN  [bm |-> m2, browser |-> 0, promise |-> m2.launchPromise]

\* close() up to its await of browser.close().
closeBegin(m) ==
    [m EXCEPT !.launchPromise = 0,
              !.closing = IF m.browser /= 0 THEN @ \cup {m.browser} ELSE @]

BrowserInit == InitAt(BaseCfg, AnySite({}, {}, {Null}), "browser")

BrowserStep(m) ==
    /\ pc = "browser"
    /\ bm' = m
    /\ UNCHANGED <<tmp, cache, now, diskKv, call, fetchCall, cfg, site, pc, run, robots, visited,
                   queued, queue, pages, errors, maxDepthReached, batches, batch, idx,
                   inflightByHost, sinceStart, file, result, seen, enqLog, hydrated, sinceHost,
                   minGap, freshCount, preRun>>

\* getPage is called and runs into launch(), up to its first await.
GetPageCall ==
    /\ Len(bm.getters) < MaxGetters
    /\ \E connected \in Connected(bm) :
          LET r == launch(bm, connected)
          IN  /\ r.bm.launches <= MaxLaunches
              /\ BrowserStep([r.bm EXCEPT !.getters =
                                 Append(@, IF r.promise = 0
                                           THEN [pc |-> "context", p |-> 0, b |-> r.browser]
                                           ELSE [pc |-> "launching", p |-> r.promise, b |-> 0])])

\* chromium.launch settles: the browser is up and stored, or the launch
\* failed and the launch promise is dropped.
LaunchDone(n, ok) ==
    /\ n \in bm.pending
    /\ BrowserStep(IF ok
                   THEN [bm EXCEPT !.pending = @ \ {n}, !.live = @ \cup {n}, !.browser = n]
                   ELSE [bm EXCEPT !.pending = @ \ {n}, !.failed = @ \cup {n},
                                   !.launchPromise = 0])

\* A getPage waiting for the launch promise goes on, or throws with it.
Resume(i) ==
    /\ i \in 1..Len(bm.getters)
    /\ bm.getters[i].pc = "launching"
    /\ bm.getters[i].p \notin bm.pending
    /\ BrowserStep(IF bm.getters[i].p \in bm.failed
                   THEN [bm EXCEPT !.getters[i].pc = "done"]
                   ELSE [bm EXCEPT !.getters[i].pc = "context", !.getters[i].b = bm.getters[i].p])

\* newContext and newPage are through and clearIdleTimer runs; on a browser
\* that is closed newContext throws, ahead of the try block.
ContextReady(i) ==
    /\ i \in 1..Len(bm.getters)
    /\ bm.getters[i].pc = "context"
    /\ BrowserStep(IF bm.getters[i].b \in bm.live
                   THEN [bm EXCEPT !.getters[i].pc = "loading", !.timer = "none"]
                   ELSE [bm EXCEPT !.getters[i].pc = "done"])

\* The page is read, or loading it threw: the finally block closes the
\* context and resetIdleTimer arms the timer.
PageDone(i) ==
    /\ i \in 1..Len(bm.getters)
    /\ bm.getters[i].pc = "loading"
    /\ BrowserStep([bm EXCEPT !.getters[i].pc = "done", !.timer = "armed"])

\* The idle timer fires and calls close().
IdleFire ==
    /\ bm.timer = "armed"
    /\ BrowserStep([closeBegin(bm) EXCEPT !.timer = "fired"])

\* close() is called from outside (AgentCrawl.close).
CloseCall ==
    /\ bm.closes < MaxCloses
    /\ BrowserStep([closeBegin(bm) EXCEPT !.closes = @ + 1])

\* browser.close() is through: close() sets this.browser to null.
CloseEnd(b) ==
    /\ b \in bm.closing
    /\ BrowserStep([bm EXCEPT !.closing = @ \ {b}, !.live = @ \ {b}, !.browser = 0])

BrowserNext ==
    \/ GetPageCall
    \/ \E n \in 1..MaxLaunches, ok \in BOOLEAN : LaunchDone(n, ok)
    \/ \E i \in 1..MaxGetters : Resume(i)
    \/ \E i \in 1..MaxGetters : ContextReady(i)
    \/ \E i \in 1..MaxGetters : PageDone(i)
    \/ IdleFire
    \/ CloseCall
    \/ \E b \in 1..MaxLaunches : CloseEnd(b)

BrowserSpec == BrowserInit /\ [][BrowserNext]_vars

(***************************************************************************)
(* Properties.                                                             *)
(***************************************************************************)
Count(seq, x) == Cardinality({i \in 1..Len(seq) : seq[i] = x})
Range(seq) == {seq[i] : i \in 1..Len(seq)}
Running(h) == {i \in 1..Len(batch) : batch[i].st = "run" /\ HostOf(batch[i].url) = h}
MaxOf(S) == IF S = {} THEN 0 ELSE CHOOSE m \in S : \A x \in S : x <= m

\* C1: in a fresh crawl the number of accepted pages never exceeds maxPages,
\* and the returned totalPages is the length of pages and at most maxPages.
C1_PageBudget ==
    run = 1 =>
        /\ Len(pages) <= cfg.maxPages
        /\ result /= Null =>
              /\ The(result).totalPages = Len(The(result).pages)
              /\ The(result).totalPages <= cfg.maxPages

\* A fresh crawl over a wide batch returned a full budget, with failures on
\* the way and the frontier not exhausted.
C1_Witness ==
    /\ run = 1 /\ pc = "done" /\ cfg.concurrency > 1
    /\ The(result).totalPages = cfg.maxPages
    /\ errors /= <<>> /\ queue /= <<>>

\* C2: over an endless site (every page links to never-seen urls) crawl()
\* eventually returns, given that every scrape settles.
C2_Terminates == <>(pc = "done")

\* The crawl of an endless site returned with its budget full and the
\* frontier not empty.
C2_Witness ==
    /\ site.mode = "fresh" /\ pc = "done"
    /\ Len(pages) = cfg.maxPages /\ queue /= <<>> /\ cfg.maxPages > 1

\* C3: within one invocation scrape is called at most once per canonical
\* url, a url is pushed on the queue at most once, and errors holds at most
\* one entry per url.
C3_ScrapeOnce ==
    /\ \A u \in Range(seen) : Count(seen, u) = 1
    /\ \A u \in Range(enqLog) : Count(enqLog, u) = 1
    /\ \A u \in Range(errors) : Count(errors, u) = 1

\* The dedup test's site, crawled to the end: /, /a, /p scraped once each
\* although /a and /p are listed twice and /a links to /p again.
C3_Witness ==
    /\ site = SiteDedup /\ run = 1 /\ pc = "done"
    /\ seen = <<UrlRoot, UrlA, UrlP>> /\ Len(pages) = 3

\* C4: the final url of every accepted page is visited, and pages holds at
\* most one page per canonical final url.
C4_RedirectConvergence ==
    /\ \A i \in 1..Len(pages) : normalizeUrlForDedupe(pages[i].url) \in visited
    /\ \A i, j \in 1..Len(pages) :
          i /= j => normalizeUrlForDedupe(pages[i].url) /= normalizeUrlForDedupe(pages[j].url)

\* C5: in a fresh crawl nothing deeper than maxDepth is dispatched or
\* enqueued, and maxDepthReached is the largest depth of an accepted page.
C5_DepthBound ==
    run = 1 =>
        /\ \A i \in 1..Len(batch) : batch[i].depth <= cfg.maxDepth
        /\ \A i \in 1..Len(queue) : queue[i].depth <= cfg.maxDepth
        /\ maxDepthReached <= cfg.maxDepth
        /\ maxDepthReached = MaxOf({pages[i].depth : i \in 1..Len(pages)})
        /\ result /= Null => The(result).maxDepthReached = maxDepthReached

\* The chain site crawled with maxDepth 1: /a is accepted at depth 1 and its
\* link /p is never enqueued, though the budget would allow it.
C5_Witness ==
    /\ site = SiteChain /\ run = 1 /\ pc = "done" /\ cfg.maxDepth = 1
    /\ Len(pages) = 2 /\ Len(pages) < cfg.maxPages
    /\ maxDepthReached = 1 /\ UrlP \notin visited /\ UrlP \notin Range(enqLog)

\* A url under a disallowed prefix that no allow rule of at least that length covers.
UnderDisallow(u, rules) ==
    \E d \in Range(rules.disallow) :
        /\ d /= <<>> /\ StartsWith(PathOf(u), d)
        /\ ~\E a \in Range(rules.allow) :
              a /= <<>> /\ StartsWith(PathOf(u), a) /\ Len(a) >= Len(d)

\* C6: with robots enabled and robots.txt fetched, no url under a disallowed
\* prefix is enqueued, dispatched or among the pages.
C6_RobotsEnforced ==
    (cfg.robotsEnabled /\ robots /= Null /\ pc /= "start") =>
        \A u \in Range(enqLog) \cup Range(seen) \cup {queue[i].url : i \in 1..Len(queue)}
                 \cup {normalizeUrlForDedupe(pages[i].url) : i \in 1..Len(pages)} :
            ~UnderDisallow(u, The(robots).rules)

\* What one uninterrupted crawl() of a fixed site returns under cfg: the
\* loop run to its end from the seeded start url.
RECURSIVE RefResults(_, _, _)
RefResults(st, b, i) ==
    IF i > Len(b) THEN st
    ELSE LET page == site.map[b[i].url]
         IN  RefResults(IF page.kind = "rej" THEN ProcessRejected(st, b[i])
                        ELSE ProcessFulfilled(st, b[i], page), b, i + 1)

RECURSIVE RefLoop(_)
RefLoop(st) ==
    IF ~LoopCond(Len(st.queue), Len(st.pages), cfg.maxPages) THEN st
    ELSE LET t == TakeBatch(st.queue, st.visited, st.queued, <<>>, Len(st.pages))
         IN  RefLoop(RefResults([st EXCEPT !.queue = t.queue, !.visited = t.visited,
                                           !.queued = t.queued], t.batch, 1))

Uninterrupted ==
    RefLoop(SeedStart([queue |-> <<>>, visited |-> {}, queued |-> {}, pages |-> <<>>,
                       errors |-> <<>>, maxDepthReached |-> 0], Null))

C8_PerHostCap ==
    pc = "drain" => \A h \in Hosts : Cardinality(Running(h)) <= cfg.perHostConcurrency

\* C9: with a respected robots Crawl-delay, two scrape starts on one host
\* are at least max(minDelayMs, crawlDelayMs) apart.
C9_CrawlDelaySpacing ==
    (/\ cfg.robotsEnabled /\ cfg.respectCrawlDelay /\ robots /= Null
     /\ pc \in {"drain", "process", "loop", "done"} /\ minGap >= 0) =>
        minGap >= Max(cfg.minDelayMs, The(robots).rules.crawlDelayMs)

\* C10: a scheduler's in-flight counter of a host is the number of
\* operations admitted and not completed, at most perHostConcurrency and
\* never negative, whether operations succeed or fail.
C10_InflightCounter ==
    pc = "sched" =>
        \A h \in Hosts :
            /\ inflightByHost[h] = Cardinality(Running(h))
            /\ inflightByHost[h] <= cfg.perHostConcurrency
            /\ inflightByHost[h] >= 0

\* An operation failed, the host is at its cap again and a caller polls.
C10_Witness ==
    /\ pc = "sched"
    /\ \E i, j \in 1..Len(batch) :
          /\ batch[i].st = "rej" /\ batch[j].st = "wait"
          /\ HostOf(batch[i].url) = HostOf(batch[j].url)
          /\ inflightByHost[HostOf(batch[i].url)] = cfg.perHostConcurrency

\* C11: two operations admitted by one scheduler for the same host start at
\* least minDelayMs apart, whether or not the earlier one has completed, and
\* a caller whose own host has a free slot and has waited out the delay is
\* admitted whatever the other hosts' state.
C11_MinDelaySpacing ==
    pc = "sched" =>
        /\ minGap >= 0 => minGap >= cfg.minDelayMs
        /\ \A i \in 1..Len(batch) :
              LET h == HostOf(batch[i].url)
              IN  (/\ batch[i].st = "wait"
                   /\ inflightByHost[h] < cfg.perHostConcurrency
                   /\ sinceStart[h] >= cfg.minDelayMs) =>
                      TryAcquire(SchedState, i).batch[i].st = "run"

\* Two operations of one host run together, started exactly minDelayMs > 0
\* apart, while an operation of the other host runs as well.
C11_Witness ==
    /\ pc = "sched" /\ cfg.minDelayMs > 0 /\ minGap = cfg.minDelayMs
    /\ Cardinality(Running(BaseOrigin)) = 2
    /\ Cardinality(Running(OtherOrigin)) = 1

\* C12: in a fresh crawl every dispatched item ends as exactly one accepted
\* page or exactly one errors entry under the url it was dispatched with,
\* failed urls are not dispatched again, the items of a batch that follow a
\* failed one are processed, and the CrawlResult returned carries the errors.
C12_FailureIsolation ==
    run = 1 =>
        /\ Range(errors) \subseteq Range(seen)
        /\ \A u \in Range(errors) : Count(seen, u) = 1 /\ Count(errors, u) = 1
        /\ pc \in {"loop", "done"} => Len(pages) + Len(errors) = Len(seen)
        /\ pc = "process" =>
              /\ idx \in 1..Len(batch)
              /\ Len(pages) + Len(errors) = Len(seen) - (Len(batch) - idx + 1)
        /\ pc = "done" => result /= Null /\ The(result).errors = errors

\* /a and /p were dispatched in one batch; /a failed, /p behind it was
\* accepted, and the crawl returned its result.
C12_Witness ==
    /\ run = 1 /\ pc = "done" /\ site.mode = "any" /\ cfg.concurrency = 2
    /\ seen = <<UrlRoot, UrlA, UrlP>> /\ errors = <<UrlA>>
    /\ Len(pages) = 2 /\ pages[2].url = UrlP /\ result /= Null

\* C13: every url enqueued or dispatched has the origin (scheme, host and
\* port) of the start url.
C13_SameOrigin ==
    \A u \in Range(enqLog) \cup Range(seen) \cup {queue[i].url : i \in 1..Len(queue)} :
        OriginOf(u) = OriginOf(cfg.startUrl)

\* C14: crawl() entered with a start url that does not parse returns at once
\* an empty result with one errors entry for that url; it fetches no
\* robots.txt or sitemap, dispatches nothing and leaves the state file alone.
C14_InvalidStart ==
    [][(pc = "start" /\ cfg.startUrl = UrlBad) =>
          /\ pc' = "done"
          /\ result' = Some([pages |-> <<>>, totalPages |-> 0, maxDepthReached |-> 0,
                             errors |-> <<UrlBad>>])
          /\ UNCHANGED <<tmp, scrapeVars, file, robots, seen, enqLog, queue, queued, visited, pages>>
          /\ robots = Null /\ seen = <<>> /\ enqLog = <<>>]_vars

\* A state file with pages exists from an earlier crawl; crawl() called on
\* it with a text that is no url returned the empty result, with robots,
\* sitemap and crawl state all enabled.
C14_Witness ==
    /\ run = 2 /\ pc = "done" /\ cfg.startUrl = UrlBad
    /\ cfg.robotsEnabled /\ cfg.sitemapEnabled /\ cfg.stateEnabled
    /\ file /= Null /\ The(file).pages /= <<>>
    /\ The(result).pages = <<>> /\ The(result).errors = <<UrlBad>>

\* C15: on a fixed site the pages, the errors and maxDepthReached a fresh
\* crawl returns are those of the crawl that handles each batch in index
\* order, whatever the order in which the scrapes of a batch settled.
C15_Deterministic ==
    (run = 1 /\ pc = "done" /\ site.mode = "fixed") =>
        /\ pages = Uninterrupted.pages
        /\ errors = Uninterrupted.errors
        /\ maxDepthReached = Uninterrupted.maxDepthReached
        /\ The(result).pages = pages /\ The(result).errors = errors

\* /a and /p were dispatched in one batch and /p settled before /a; the
\* result loop has recorded /a's failure first all the same and is at /p.
C15_Witness ==
    /\ run = 1 /\ site = SiteFailing /\ pc = "process" /\ idx = 2 /\ Len(batch) = 2
    /\ batch[1].url = UrlA /\ batch[1].ord = 2 /\ batch[2].ord = 1
    /\ errors = <<UrlA>>

\* C16: the depths of the frontier queue never decrease from head to tail,
\* and neither do those of a batch.
C16_BfsOrder ==
    /\ \A i \in 1..(Len(queue) - 1) : queue[i].depth <= queue[i + 1].depth
    /\ \A i \in 1..(Len(batch) - 1) : batch[i].depth <= batch[i + 1].depth

\* C17: normalizeUrl applied to its own output returns that output.
C17_NormalizeIdempotent ==
    (pc = "norm" /\ Len(seen) >= 2) => seen[2] = seen[1]

\* The pattern test stated on the url text.
PassesPatterns(u) ==
    /\ (cfg.includePatterns = {} \/ \E p \in cfg.includePatterns : Includes(u, p))
    /\ \A p \in cfg.excludePatterns : ~Includes(u, p)

\* Every url this invocation enqueued or dispatched passes the patterns.
OnlyPassingUrls == \A u \in Range(enqLog) \cup Range(seen) : PassesPatterns(u)

\* C18 as stated: only urls passing the include / exclude patterns are
\* enqueued or dispatched, and a fresh crawl whose start url fails the
\* patterns returns zero pages.
C18_PatternFilterAsStated ==
    /\ OnlyPassingUrls
    /\ (run = 1 /\ pc = "done" /\ ~PassesPatterns(normalizeUrl(cfg.startUrl))) =>
           The(result).totalPages = 0

\* C18, amended: only urls passing the include / exclude patterns are
\* enqueued or dispatched, and a fresh crawl without sitemap seeding whose
\* start url fails the patterns dispatches nothing and returns zero pages.
C18_PatternFilter ==
    /\ OnlyPassingUrls
    /\ (/\ run = 1 /\ pc = "done" /\ ~cfg.sitemapEnabled
        /\ ~PassesPatterns(normalizeUrl(cfg.startUrl))) =>
           The(result).totalPages = 0 /\ seen = <<>>

\* / links to /a, /p and /px and "x" is excluded: the crawl ended with /a
\* and /p dispatched and /px never enqueued, its budget not used up.
C18_Witness ==
    /\ run = 1 /\ pc = "done" /\ site = SiteFailing
    /\ cfg.excludePatterns = {PatternX} /\ cfg.includePatterns = {}
    /\ seen = <<UrlRoot, UrlA, UrlP>> /\ UrlPX \notin Range(enqLog)
    /\ Len(pages) < cfg.maxPages

\* C19: in a resumed crawl the pages, carried-over ones included, never
\* exceed the maxPages of the resuming call, the returned totalPages is at
\* most that maxPages, and nothing is dispatched while the page count is at
\* or above it.
C19_ResumeBudget ==
    run > 1 =>
        /\ pc /= "start" => Len(pages) <= cfg.maxPages
        /\ (pc = "done" /\ Parses(cfg.startUrl)) => The(result).totalPages <= cfg.maxPages
        /\ Len(pages) >= cfg.maxPages => pc \notin {"drain", "process"}

\* C20: with persistPages disabled a resumed crawl enters its loop with
\* empty pages and empty errors, and the snapshot it writes at its end holds
\* neither pages nor errors.
C20_CarryOnlyIfPersistPages ==
    (run > 1 /\ cfg.stateEnabled /\ ~cfg.persistPages /\ Parses(cfg.startUrl)) =>
        /\ (pc = "loop" /\ batches = 0) => pages = <<>> /\ errors = <<>>
        /\ pc = "done" => The(file).pages = <<>> /\ The(file).errors = <<>>

\* C21: when loading the persisted state fails (no file, unreadable, not
\* JSON, or a malformed field that breaks hydration part-way), the crawl
\* starts cold: nothing is hydrated, so with no sitemap and no filter the
\* frontier is exactly the start url at depth 0.
LoadFails == file = Null \/ The(file).damage /= "none"

C21_ColdStartOnLoadFailure ==
    [][(pc = "start" /\ pc' = "loop" /\ LoadFails) =>
          /\ visited' = {}
          /\ queued' = {UrlRoot}
          /\ queue' = <<[url |-> UrlRoot, depth |-> 0]>>
          /\ pages' = <<>>
          /\ errors' = <<>>
          /\ maxDepthReached' = 0]_vars

\* C22: state saves are atomic: a crawl step leaves at the state path the
\* file that was there or the complete snapshot of the state it has just
\* reached, never a text cut short; a final flush that fails leaves the
\* frontier as it was and the result is that of the in-memory state.
C22_AtomicSave ==
    [][/\ pc /= "start" =>
            \/ file' = file
            \/ /\ file' /= Null
               /\ The(file').damage = "none"
               /\ The(file').queue = queue'
               /\ The(file').visited = visited'
               /\ The(file').queued = queued'
               /\ The(file').pages = IF cfg.persistPages THEN pages' ELSE <<>>
               /\ The(file').errors = errors'
               /\ The(file').maxDepthReached = maxDepthReached'
       /\ (pc = "loop" /\ pc' = "done") =>
            /\ queue' = queue /\ visited' = visited /\ queued' = queued
            /\ result' = Some([pages |-> pages, totalPages |-> Len(pages),
                               maxDepthReached |-> maxDepthReached, errors |-> errors])]_vars

\* The last flush of a crawl failed midway: the temp file is cut short, the
\* state path still holds the complete snapshot of an earlier flush, and
\* the crawl returned its pages.
C22_Witness ==
    /\ pc = "done"
    /\ tmp /= Null /\ The(tmp).damage = "cut"
    /\ file /= Null /\ The(file).damage = "none" /\ The(file).visited /= visited
    /\ result /= Null /\ The(result).totalPages = Len(pages) /\ Len(pages) > 1

\* C23: with sitemap enabled, seeding enqueues at most maxUrls sitemap urls,
\* each at depth 0, each among the first maxUrls <loc> entries, admitted by
\* the filter of discovered links, not hydrated as visited or queued and
\* enqueued once; a response that is not 2xx, or a failed fetch, seeds none.
C23_SitemapSeeding ==
    [][(pc = "start" /\ pc' = "loop" /\ cfg.sitemapEnabled) =>
          \A res \in site.sitemaps :
             LET seeded == SelectSeq(enqLog', LAMBDA u : u /= UrlRoot)
                 base == Len(queue') - Len(enqLog')
                 capped == {normalizeUrlForDedupe(res.locs[j]) :
                              j \in 1..Min(Len(res.locs), cfg.sitemapMaxUrls)}
             IN  /\ Len(seeded) <= cfg.sitemapMaxUrls
                 /\ \A i \in 1..Len(enqLog') :
                        queue'[base + i] = [url |-> enqLog'[i], depth |-> 0]
                 /\ \A u \in Range(seeded) :
                        /\ u \in capped
                        /\ shouldQueueWith(u, robots')
                        /\ u \notin hydrated'
                        /\ file /= Null => u \notin The(file).queued
                        /\ Count(enqLog', u) = 1
                 /\ res.status /= "ok" => seeded = <<>>]_vars

\* sitemap.xml lists /p and /a/ and maxUrls is 1: /p alone is seeded, at
\* depth 0 behind the start url.
C23_Witness ==
    /\ pc = "loop" /\ batches = 0 /\ seen = <<>> /\ run = 1
    /\ cfg.sitemapMaxUrls = 1
    /\ site.sitemaps = {[status |-> "ok", locs |-> <<UrlP, UrlASlash>>]}
    /\ queue = <<[url |-> UrlRoot, depth |-> 0], [url |-> UrlP, depth |-> 0]>>
    /\ enqLog = <<UrlRoot, UrlP>>

\* C27: CacheManager evicts the least recently used entry: a set of a new
\* key on a full cache removes exactly the entry whose last use (get hit or
\* set) is oldest, and the cache never holds more than maxSize entries.
KeysOf(c) == {c[i].key : i \in 1..Len(c)}

C27_LruEviction ==
    [][/\ Len(cache') <= cfg.maxSize
       /\ (pc = "cache" /\ Len(cache) = cfg.maxSize /\ KeysOf(cache') \ KeysOf(cache) /= {}) =>
            \E i \in 1..Len(cache) :
               /\ KeysOf(cache) \ KeysOf(cache') = {cache[i].key}
               /\ \A j \in 1..Len(cache) : cache[i].timestamp <= cache[j].timestamp]_vars

\* C28: fetch retries a 5xx response, makes at most retries + 1 attempts,
\* returns at the first response that is not retried with that response's
\* status, and when every attempt answered 5xx reports the last status with
\* error 'HTTP <status>' and needsBrowser false.
C28_RetryProtocol ==
    fetchCall /= Null =>
        LET c == The(fetchCall)
            last == c.responses[c.calls]
        IN  /\ c.calls \in 1..(c.retries + 1)
            /\ \A i \in 1..(c.calls - 1) : Thrown(c.responses[i])
            /\ Thrown(last) => c.calls = c.retries + 1
            /\ ~Thrown(last) => c.result.status = last.status
            /\ (\A i \in 1..(c.retries + 1) : c.responses[i].status >= 500) =>
                   /\ c.result.status = last.status
                   /\ c.result.error = Some(<<"HTTP", last.status>>)
                   /\ c.result.needsBrowser = Some(FALSE)

\* Whether the call c of scrape invoked the static fetcher or the browser.
Invoked(c, what) == \E i \in 1..Len(c.invoked) : c.invoked[i] = what

\* C24: in mode 'static' scrape never invokes the browser; in mode 'browser'
\* it never invokes the static fetcher; in mode 'hybrid' it invokes the
\* browser only after a static fetch whose result reports needsBrowser, and
\* never after a static fetch that reports a non-2xx status.
C24_ModeProtocol ==
    call /= Null =>
        LET c == The(call)
        IN  /\ c.conf.mode = "static" => ~Invoked(c, "browser")
            /\ c.conf.mode = "browser" => ~Invoked(c, "static")
            /\ c.conf.mode = "hybrid" /\ Invoked(c, "browser") =>
                   /\ c.invoked = <<"static", "browser">>
                   /\ IsSet(The(c.sres).needsBrowser)
            /\ c.conf.mode = "hybrid" /\ c.sres /= Null /\ ~Is2xx(The(c.sres).status) =>
                   ~Invoked(c, "browser")

\* A hybrid call whose static fetch reported needsBrowser and that went on to
\* the browser.
C24_Witness ==
    /\ call /= Null
    /\ The(call).conf.mode = "hybrid"
    /\ The(call).invoked = <<"static", "browser">>
    /\ IsSet(The(The(call).sres).needsBrowser)

\* C25: when the response scrape ends on (the browser's if it was invoked,
\* else the static fetcher's) is non-2xx, or the browser threw, or no HTML
\* was fetched, the page returned has empty content and a non-empty error,
\* and, but for a browser exception, the status and headers of that response.
C25_FailuresAsValues ==
    call /= Null /\ The(call).hit = "none" =>
        LET c == The(call)
            last == IF c.bres /= Null THEN The(c.bres) ELSE The(c.sres)
            threw == c.bres /= Null /\ last.kind = "throw"
            failure == threw \/ ~Is2xx(last.status) \/ last.html = ""
        IN  failure =>
                /\ c.page.content = ""
                /\ HasText(c.page.error)
                /\ ~threw => c.page.status = last.status /\ c.page.headers = last.headers

\* C26: a successful result of scrape carries chunks exactly when chunking is
\* enabled in the config of that call, whatever calls came before and
\* whether or not the result was served from a cache.
C26_ChunksIffChunking ==
    call /= Null /\ The(call).page.error = Null =>
        ((The(call).page.chunks /= Null) <=> The(call).conf.chunking)

\* C29: within a run visited only grows; every item taken off the queue is
\* in visited before its scrape is dispatched, so every url dispatched so
\* far is in visited; and the final url of every fulfilled scrape is in
\* visited once its result is processed, and stays there.
C29_VisitedGrows ==
    [][/\ pc /= "start" /\ pc' /= "start" => visited \subseteq visited'
       /\ \A i \in 1..Len(batch') : batch'[i].url \in visited'
       /\ Range(seen') \subseteq visited'
       /\ \A i \in 1..Len(pages') : normalizeUrlForDedupe(pages'[i].url) \in visited'
       /\ pc = "process" /\ pc' /= "start" /\ ResultAt(batch, idx).st = "ful" =>
              \E page \in PagesFor(ResultAt(batch, idx).url) :
                  normalizeUrlForDedupe(page.url) \in visited']_vars

\* A finished run one of whose pages came back under a final url that was
\* never dispatched, with that url and the dispatched ones in visited.
C29_Witness ==
    /\ pc = "done"
    /\ \E i \in 1..Len(pages) :
          /\ normalizeUrlForDedupe(pages[i].url) \notin Range(seen)
          /\ normalizeUrlForDedupe(pages[i].url) \in visited
    /\ seen /= <<>> /\ Range(seen) \subseteq visited

\* C30: at every batch boundary, from seeding onward, queued is exactly the
\* set of the urls of the items in the queue, and no url is in the queue
\* twice; also when the start url is rejected by the admission filter and
\* after hydration from persisted state.
C30_QueuedMirrorsQueue ==
    pc = "loop" =>
        /\ queued = {queue[i].url : i \in 1..Len(queue)}
        /\ \A i, j \in 1..Len(queue) : queue[i].url = queue[j].url => i = j

\* C31: when crawl() has hydrated the persisted state and seeded the start
\* url and the sitemap urls, no item of the queue has a url in visited.
C31_QueueDisjointFromVisited ==
    [][pc = "start" /\ pc' = "loop" =>
           \A i \in 1..Len(queue') : queue'[i].url \notin visited']_vars

\* A resumed run at its first batch boundary, whose state file holds a
\* queue item that is also in the file's visited set.
C31_Witness ==
    /\ pc = "loop" /\ batches = 0 /\ seen = <<>> /\ run > 1
    /\ file /= Null /\ hydrated /= {} /\ hydrated = The(file).visited
    /\ \E i \in 1..Len(The(file).queue) : The(file).queue[i].url \in The(file).visited

\* The snapshot of the crawl's state as it is after the step.
SnapshotAfter ==
    Snapshot([queue |-> queue', visited |-> visited', queued |-> queued', pages |-> pages',
              errors |-> errors', maxDepthReached |-> maxDepthReached'])

\* C32: with crawlState enabled the state file is rewritten when the last
\* result of a batch has been processed and the count of completed batches
\* is a multiple of flushEvery, and when the loop ends, each time with the
\* state as it is after that step, and at no other step; with crawlState
\* disabled there never is a state file.
C32_FlushCadence ==
    [][/\ ~cfg.stateEnabled => file' = Null
       /\ cfg.stateEnabled =>
              IF pc = "process" /\ pc' = "loop"
              THEN /\ batches' = batches + 1
                   /\ IF batches' % cfg.flushEvery = 0
                      THEN file' = Some(SnapshotAfter) ELSE file' = file
              ELSE IF pc = "loop" /\ pc' = "done"
              THEN file' = Some(SnapshotAfter)
              ELSE file' = file]_vars

\* The second batch of a crawl with flushEvery 2 has just been processed and
\* the state file holds the state after it.
C32_Witness ==
    /\ cfg.stateEnabled /\ cfg.flushEvery = 2 /\ run = 1
    /\ pc = "loop" /\ batches = 2 /\ Len(pages) + Len(errors) >= 2
    /\ file = Some(Snapshot(CrawlState))

\* The non-empty rules of rs that are a prefix of path.
MatchingRules(path, rs) == {rs[i] : i \in {j \in 1..Len(rs) : rs[j] /= <<>> /\ StartsWith(path, rs[j])}}

\* C33: isAllowedByRobots rejects a url that is no http url or whose origin
\* is not the robots origin; otherwise the longest non-empty rule that is a
\* prefix of the path decides: the url is rejected exactly when some
\* Disallow rule matches and is strictly longer than every matching Allow
\* rule, so a tie, and no match at all, give allowed.
C33_LongestPrefixWins ==
    call /= Null /\ pc = "robots" =>
        LET c == The(call)
            path == PathOf(c.url)
            allows == MatchingRules(path, c.robots.rules.allow)
            disallows == MatchingRules(path, c.robots.rules.disallow)
        IN  IF ~safeHttpUrl(c.url) \/ OriginOf(c.url) /= c.robots.origin
            THEN ~c.allowed
            ELSE c.allowed <=>
                     ~\E d \in disallows : \A a \in allows : Len(d) > Len(a)

\* A call in which an Allow and a Disallow rule of the same length both
\* match the path, and nothing longer does.
C33_Witness ==
    /\ call /= Null /\ pc = "robots"
    /\ The(call).url = UrlPX /\ The(call).robots.origin = BaseOrigin
    /\ The(call).robots.rules.allow = <<<<"/">>, <<"/", "p">>>>
    /\ The(call).robots.rules.disallow = <<<<"/", "p">>>>
    /\ The(call).allowed

\* C34: parseRobotsTxt takes the rules of the first section one of whose
\* agents is a name matching the crawler's user agent, whatever sections
\* match through * only; when no section matches by name it takes the first
\* section with the agent *; and User-agent lines with no Allow or Disallow
\* line between them go to one section.
C34_SectionPreference ==
    call /= Null /\ pc = "parse" =>
        LET c == The(call)
            secs == c.parsed.sections
            byName == {k \in 1..Len(secs) :
                          \E i \in 1..Len(secs[k].agents) :
                              /\ secs[k].agents[i] /= <<"*">>
                              /\ matchUserAgent(secs[k].agents[i], c.userAgent)}
            byStar == {k \in 1..Len(secs) :
                          \E i \in 1..Len(secs[k].agents) : secs[k].agents[i] = <<"*">>}
        IN  /\ byName /= {} => c.parsed.best = FirstIn(byName)
            /\ byName = {} => c.parsed.best = FirstIn(byStar)
            /\ \A i, j \in 1..Len(c.content) :
                   /\ i < j
                   /\ c.content[i].key = "user-agent" /\ c.content[j].key = "user-agent"
                   /\ \A m \in (i + 1)..(j - 1) : c.content[m].key \notin {"allow", "disallow"}
                   => c.parsed.owner[i] = c.parsed.owner[j]

\* C35: in a fresh crawl, at every batch boundary the pages and the errors
\* together number the scrapes dispatched so far; taking a batch off the
\* queue, with the items it drops, adds to neither, and each result
\* processed adds one entry to exactly one of them.
C35_OutcomeAccounting ==
    [][/\ pc' = "loop" => Len(pages') + Len(errors') = Len(seen')
       /\ pc = "loop" /\ pc' /= "done" => pages' = pages /\ errors' = errors
       /\ pc = "process" =>
              \/ Len(pages') = Len(pages) + 1 /\ errors' = errors
              \/ Len(errors') = Len(errors) + 1 /\ pages' = pages]_vars

\* A batch boundary with a page, an error and an item that was enqueued but
\* dropped at dequeue, its url being in visited by then.
C35_Witness ==
    /\ pc = "loop" /\ queue = <<>>
    /\ pages /= <<>> /\ errors /= <<>>
    /\ Len(pages) + Len(errors) = Len(seen)
    /\ \E i \in 1..Len(enqLog) : enqLog[i] \notin Range(seen)

\* C36: given that every admitted operation settles, every caller waiting
\* in run(host, op) is eventually admitted, whatever the other callers of
\* the same scheduler do.
C36_StarvationFree ==
    \A i \in 1..MaxCallers :
        (i <= Len(batch) /\ batch[i].st = "wait") ~> (i <= Len(batch) /\ batch[i].st /= "wait")

\* C37: a page carrying metadata.error is in neither the in-memory cache
\* nor the disk cache, and a call of scrape that returns such a page has
\* invoked the fetcher or the browser: it was not served from a cache.
C37_FailuresNotCached ==
    /\ \A i \in 1..Len(cache) : cache[i].data.error = Null
    /\ \A e \in diskKv : e.value.error = Null
    /\ call /= Null /\ The(call).page.error /= Null =>
           The(call).hit = "none" /\ The(call).invoked /= <<>>

\* A first call of scrape, with the disk cache enabled, has returned an
\* error page and both caches are still empty.
C37_Witness ==
    /\ call /= Null /\ now = 1
    /\ The(call).conf.cache /\ The(call).page.error /= Null
    /\ The(call).invoked /= <<>>
    /\ cache = <<>> /\ diskKv = {}

\* C38: the close() the idle timer triggers runs only when no getPage call
\* is between the return of its launch() and the closing of its context.
C38_IdleCloseOnlyWhenIdle ==
    [][bm.timer = "armed" /\ bm'.timer = "fired" =>
           \A i \in 1..Len(bm.getters) : bm.getters[i].pc \notin {"context", "loading"}]_vars

\* C39: at most one launch is under way and at most one browser is alive,
\* and every browser alive is the manager's browser, the value of its launch
\* promise, or a browser whose close() is under way.
C39_OneTrackedBrowser ==
    /\ Cardinality(bm.pending) <= 1
    /\ Cardinality(bm.live) <= 1
    /\ bm.live \subseteq ({bm.browser, bm.launchPromise} \cup bm.closing)

\* C40: every iteration of the outer loop of crawl() that starts (the loop
\* condition holds) removes at least one item from the frontier queue, for
\* every concurrency and maxPages crawl() runs with.
C40_LoopProgress ==
    pc = "loop" /\ LoopCond(Len(queue), Len(pages), cfg.maxPages) =>
        Len(TakeBatch(queue, visited, queued, <<>>, Len(pages)).queue) < Len(queue)
====
